---- MODULE Spec2Model ----
(***************************************************************************)
(* A model of the GoBA core: the banked ARM7TDMI register file             *)
(* (internal/cpu/registers.go), the ARM decoder (internal/cpu/             *)
(* arm_decode.go), the interpreter (internal/cpu/cpu.go and the execArm_*  *)
(* handlers) and the memory bus (internal/bus/bus.go) with its backing     *)
(* stores.                                                                 *)
(*                                                                         *)
(* A uint32 is modelled as a pair <<hi, lo>> of 16-bit halves, because the *)
(* model checker's integers are 32-bit signed; all arithmetic is done      *)
(* modulo 2^32 on the halves, as Go does on uint32.                        *)
(***************************************************************************)
EXTENDS Integers, Sequences, FiniteSets, TLC

VARIABLES
    regs,       \* CPU.Registers: the banked register file
    bus,        \* the Bus and the stores behind it
    pipeline,   \* CPU.Pipeline
    cycles,     \* CPU.Cycles
    panicked,   \* TRUE once a Go panic has ended the process
    calls,      \* how many register-file calls the driver has made
    last        \* the last operation: its name, its inputs, the state before it

vars == <<regs, bus, pipeline, cycles, panicked, calls, last>>

----------------------------------------------------------------------------
(* uint32 arithmetic on <<hi, lo>> pairs                                   *)

Half == 2 ^ 16

Word(hi, lo) == <<hi, lo>>

U32(n) == <<n \div Half, n % Half>>

Zero32 == <<0, 0>>

Pow2(n) == 2 ^ n

Add32(a, b) ==
    LET lo == a[2] + b[2]
        hi == a[1] + b[1] + (lo \div Half)
    IN  <<hi % Half, lo % Half>>

Not32(a) == <<(Half - 1) - a[1], (Half - 1) - a[2]>>

Neg32(a) == Add32(Not32(a), <<0, 1>>)

Sub32(a, b) == Add32(a, Neg32(b))

Lt32(a, b) == a[1] < b[1] \/ (a[1] = b[1] /\ a[2] < b[2])

Le32(a, b) == a = b \/ Lt32(a, b)

RECURSIVE And16(_, _, _)
And16(x, y, n) ==
    IF n = 0 \/ x = 0 \/ y = 0 THEN 0
    ELSE (IF x % 2 = 1 /\ y % 2 = 1 THEN 1 ELSE 0)
         + 2 * And16(x \div 2, y \div 2, n - 1)

And32(a, b) == <<And16(a[1], b[1], 16), And16(a[2], b[2], 16)>>

RECURSIVE Xor16(_, _, _)
Xor16(x, y, n) ==
    IF n = 0 THEN 0
    ELSE IF x = 0 THEN y
    ELSE IF y = 0 THEN x
    ELSE (IF x % 2 # y % 2 THEN 1 ELSE 0)
         + 2 * Xor16(x \div 2, y \div 2, n - 1)

RECURSIVE Or16(_, _, _)
Or16(x, y, n) ==
    IF n = 0 THEN 0
    ELSE IF x = 0 THEN y
    ELSE IF y = 0 THEN x
    ELSE (IF x % 2 = 1 \/ y % 2 = 1 THEN 1 ELSE 0)
         + 2 * Or16(x \div 2, y \div 2, n - 1)

Or32(a, b) == <<Or16(a[1], b[1], 16), Or16(a[2], b[2], 16)>>

Xor32(a, b) == <<Xor16(a[1], b[1], 16), Xor16(a[2], b[2], 16)>>

AndNot32(a, b) == And32(a, Not32(b))

\* value << n on uint32; Go yields 0 for n >= 32
Shl32(a, n) ==
    IF n >= 32 THEN Zero32
    ELSE IF n >= 16 THEN <<(a[2] * Pow2(n - 16)) % Half, 0>>
    ELSE <<((a[1] * Pow2(n)) + (a[2] \div Pow2(16 - n))) % Half,
           (a[2] * Pow2(n)) % Half>>

\* value >> n on uint32 (logical); Go yields 0 for n >= 32
Shr32(a, n) ==
    IF n >= 32 THEN Zero32
    ELSE IF n >= 16 THEN <<0, a[1] \div Pow2(n - 16)>>
    ELSE <<a[1] \div Pow2(n),
           ((a[1] % Pow2(n)) * Pow2(16 - n)) + (a[2] \div Pow2(n))>>

\* bit n of a, as 0 or 1
Bit32(a, n) == IF n >= 16 THEN (a[1] \div Pow2(n - 16)) % 2
               ELSE (a[2] \div Pow2(n)) % 2

\* (a >> lsb) & (2^width - 1) as a small integer (width <= 16)
Field(a, lsb, width) == Shr32(a, lsb)[2] % Pow2(width)

SetBit32(a, n, on) ==
    LET mask == Shl32(<<0, 1>>, n)
    IN  IF on THEN Or32(a, mask) ELSE AndNot32(a, mask)

----------------------------------------------------------------------------
(* Register file: internal/cpu/registers.go                                *)

USRMode == 16
FIQMode == 17
IRQMode == 18
SVCMode == 19
ABTMode == 23
UNDMode == 27
SYSMode == 31

ValidModes == {USRMode, FIQMode, IRQMode, SVCMode, ABTMode, UNDMode, SYSMode}

\* GetMode: uint8(r.CPSR & 0x1F)
GetMode(r) == Field(r.CPSR, 0, 5)

\* The zero value of the Registers struct with CPSR = SVC | I | F.
NewRegisters ==
    [R |-> [i \in 0..12 |-> Zero32],
     SP_usr |-> Zero32, LR_usr |-> Zero32,
     SP_svc |-> Zero32, LR_svc |-> Zero32,
     SP_abt |-> Zero32, LR_abt |-> Zero32,
     SP_und |-> Zero32, LR_und |-> Zero32,
     SP_irq |-> Zero32, LR_irq |-> Zero32,
     R8_fiq |-> Zero32, R9_fiq |-> Zero32, R10_fiq |-> Zero32,
     R11_fiq |-> Zero32, R12_fiq |-> Zero32,
     SP_fiq |-> Zero32, LR_fiq |-> Zero32,
     PC |-> Zero32,
     CPSR |-> Or32(Or32(U32(SVCMode), Shl32(U32(1), 7)), Shl32(U32(1), 6)),
     SPSR_svc |-> Zero32, SPSR_abt |-> Zero32, SPSR_und |-> Zero32,
     SPSR_irq |-> Zero32, SPSR_fiq |-> Zero32,
     currentMode |-> SVCMode]

\* A faulty SetMode that stores the mode code as the whole CPSR;
\* SetModeFrame must tell it from SetMode.
SetModeWholeCPSR(r, mode) ==
    [r EXCEPT !.CPSR = U32(mode), !.currentMode = mode]

\* SetMode: early return when the mode is unchanged, else rewrite CPSR[4:0]
\* and the cached currentMode.
SetMode(r, mode) ==
    IF GetMode(r) = mode THEN r
    ELSE [r EXCEPT !.CPSR = Or32(AndNot32(r.CPSR, U32(31)), U32(mode)),
                   !.currentMode = mode]

\* The field of the struct that GetReg/SetReg select for R8..R12 in FIQ mode.
FiqField(regNum) ==
    CASE regNum = 8 -> "R8_fiq"
      [] regNum = 9 -> "R9_fiq"
      [] regNum = 10 -> "R10_fiq"
      [] regNum = 11 -> "R11_fiq"
      [] regNum = 12 -> "R12_fiq"
      [] regNum = 13 -> "SP_fiq"
      [] regNum = 14 -> "LR_fiq"

\* A faulty R13 selection with one stack pointer for every mode;
\* RegisterBanking must tell it from SPField.
SPFieldUnbanked(mode) == "SP_usr"

\* The switch on mode for R13; the default branch falls back to SP_usr.
SPField(mode) ==
    CASE mode = USRMode \/ mode = SYSMode -> "SP_usr"
      [] mode = SVCMode -> "SP_svc"
      [] mode = ABTMode -> "SP_abt"
      [] mode = UNDMode -> "SP_und"
      [] mode = IRQMode -> "SP_irq"
      [] OTHER -> "SP_usr"

\* The switch on mode for R14; the default branch falls back to LR_usr.
LRField(mode) ==
    CASE mode = USRMode \/ mode = SYSMode -> "LR_usr"
      [] mode = SVCMode -> "LR_svc"
      [] mode = ABTMode -> "LR_abt"
      [] mode = UNDMode -> "LR_und"
      [] mode = IRQMode -> "LR_irq"
      [] OTHER -> "LR_usr"

GetReg(r, regNum) ==
    LET mode == GetMode(r)
    IN  IF regNum = 15 THEN r.PC
        ELSE IF mode = FIQMode /\ regNum >= 8 THEN r[FiqField(regNum)]
        ELSE IF regNum = 13 THEN r[SPField(mode)]
        ELSE IF regNum = 14 THEN r[LRField(mode)]
        ELSE r.R[regNum]

\* A faulty SetReg that stores R0-R14 in the shared array whatever the
\* mode; RegisterRoundTrip must tell it from SetReg.
SetRegShared(r, regNum, value) ==
    IF regNum = 15 THEN [r EXCEPT !.PC = value]
    ELSE [r EXCEPT !.R[regNum] = value]

SetReg(r, regNum, value) ==
    LET mode == GetMode(r)
    IN  IF regNum = 15 THEN [r EXCEPT !.PC = value]
        ELSE IF mode = FIQMode /\ regNum >= 8
             THEN [r EXCEPT ![FiqField(regNum)] = value]
        ELSE IF regNum = 13 THEN [r EXCEPT ![SPField(mode)] = value]
        ELSE IF regNum = 14 THEN [r EXCEPT ![LRField(mode)] = value]
        ELSE [r EXCEPT !.R[regNum] = value]

\* GetReg and SetReg panic on a register number above 15.
RegNumPanics(regNum) == regNum > 15

GetSPSR(r) ==
    LET mode == GetMode(r)
    IN  CASE mode = FIQMode -> r.SPSR_fiq
          [] mode = SVCMode -> r.SPSR_svc
          [] mode = ABTMode -> r.SPSR_abt
          [] mode = IRQMode -> r.SPSR_irq
          [] mode = UNDMode -> r.SPSR_und
          [] OTHER -> Zero32

\* A faulty SetSPSR whose user/system branch stores into SPSR_svc;
\* SPSRUserSystem must tell it from SetSPSR.
SetSPSRFallsToSvc(r, value) ==
    IF GetMode(r) = FIQMode THEN [r EXCEPT !.SPSR_fiq = value]
    ELSE [r EXCEPT !.SPSR_svc = value]

SetSPSR(r, value) ==
    LET mode == GetMode(r)
    IN  CASE mode = FIQMode -> [r EXCEPT !.SPSR_fiq = value]
          [] mode = SVCMode -> [r EXCEPT !.SPSR_svc = value]
          [] mode = ABTMode -> [r EXCEPT !.SPSR_abt = value]
          [] mode = IRQMode -> [r EXCEPT !.SPSR_irq = value]
          [] mode = UNDMode -> [r EXCEPT !.SPSR_und = value]
          [] OTHER -> r

IsThumb(r) == Bit32(r.CPSR, 5) = 1
SetThumbState(r, thumb) == [r EXCEPT !.CPSR = SetBit32(r.CPSR, 5, thumb)]
IsFIQDisabled(r) == Bit32(r.CPSR, 6) = 1
SetFIQDisabled(r, disabled) == [r EXCEPT !.CPSR = SetBit32(r.CPSR, 6, disabled)]
IsIRQDisabled(r) == Bit32(r.CPSR, 7) = 1
SetIRQDisabled(r, disabled) == [r EXCEPT !.CPSR = SetBit32(r.CPSR, 7, disabled)]

GetFlagN(r) == Bit32(r.CPSR, 31) = 1
GetFlagZ(r) == Bit32(r.CPSR, 30) = 1
GetFlagC(r) == Bit32(r.CPSR, 29) = 1
GetFlagV(r) == Bit32(r.CPSR, 28) = 1
SetFlagN(r, set) == [r EXCEPT !.CPSR = SetBit32(r.CPSR, 31, set)]
SetFlagZ(r, set) == [r EXCEPT !.CPSR = SetBit32(r.CPSR, 30, set)]
SetFlagC(r, set) == [r EXCEPT !.CPSR = SetBit32(r.CPSR, 29, set)]
SetFlagV(r, set) == [r EXCEPT !.CPSR = SetBit32(r.CPSR, 28, set)]

----------------------------------------------------------------------------
(* Backing stores and the bus: internal/bus/bus.go, internal/memory,       *)
(* internal/io, internal/ppu, internal/cartridge.                          *)
(* A byte array is a function from the offsets that have been written to   *)
(* their bytes; make([]byte, n) is the empty function, every other offset  *)
(* reading 0.                                                              *)

BIOSAddrStart == Word(0, 0)
BIOSAddrEnd == Word(0, 16383)
EWRAMAddrStart == Word(512, 0)
EWRAMAddrEnd == Word(515, 65535)
EWRAMSize == 262144
EWRAMMirrorEnd == Word(767, 65535)
IWRAMAddrStart == Word(768, 0)
IWRAMAddrEnd == Word(768, 32767)
IWRAMSize == 32768
IWRAMMirrorEnd == Word(1023, 65535)
IOAddrStart == Word(1024, 0)
IOAddrEnd == Word(1024, 1023)
IOSize == 1024
IOMirrorEnd == Word(1279, 65535)
PALRAMAddrStart == Word(1280, 0)
PALRAMSize == 1024
PALRAMMirrorEnd == Word(1535, 65535)
VRAMAddrStart == Word(1536, 0)
VRAMAddrEnd == Word(1537, 32767)
VRAMSize == 98304
VRAMMirrorEnd == Word(1791, 65535)
OAMAddrStart == Word(1792, 0)
OAMAddrEnd == Word(1792, 1023)
OAMSize == 1024
OAMMirrorEnd == Word(2047, 65535)
GamePakAddrStartWS0 == Word(2048, 0)
GamePakAddrEndWS0 == Word(2559, 65535)
GamePakAddrStartWS1 == Word(2560, 0)
GamePakAddrEndWS1 == Word(3071, 65535)
GamePakAddrStartWS2 == Word(3072, 0)
GamePakAddrEndWS2 == Word(3583, 65535)
GamePakSRAMAddrStart == Word(3584, 0)
GamePakSRAMAddrEnd == Word(3584, 65535)
\* cartridge.SRAM_SIZE: the length of the SRAM slice NewCartridge makes
SRAM_SIZE == 32768

InRange(addr, lo, hi) == Le32(lo, addr) /\ Le32(addr, hi)

\* addr - base as an integer, for an address inside a region (below 2^28)
Offset(addr, base) == LET d == Sub32(addr, base) IN d[1] * Half + d[2]

\* data[off] of a zero-initialised byte array
ArrayRead(data, off) == IF off \in DOMAIN data THEN data[off] ELSE 0

\* data[off] = value
ArrayWrite(data, off, value) ==
    [x \in (DOMAIN data) \cup {off} |-> IF x = off THEN value ELSE data[x]]

IsPPUIORegister(off) == off <= 95

\* PPU.ReadIORegister8: DISPCNT and VCOUNT bytes, 0 for every other offset
ReadIORegister8(b, off) ==
    CASE off = 0 -> b.dispcnt % 256
      [] off = 1 -> (b.dispcnt \div 256) % 256
      [] off = 6 -> b.VCount % 256
      [] off = 7 -> b.VCount \div 256
      [] OTHER -> 0

\* The routing switch of Bus.Read8 and Bus.Write8, as the name of the case
\* taken.
ReadRegion(addr) ==
    CASE InRange(addr, BIOSAddrStart, BIOSAddrEnd) -> "BIOS"
      [] InRange(addr, EWRAMAddrStart, EWRAMMirrorEnd) -> "EWRAM"
      [] InRange(addr, IWRAMAddrStart, IWRAMMirrorEnd) -> "IWRAM"
      [] InRange(addr, IOAddrStart, IOMirrorEnd) -> "IO"
      [] InRange(addr, PALRAMAddrStart, PALRAMMirrorEnd) -> "PALRAM"
      [] InRange(addr, VRAMAddrStart, VRAMMirrorEnd) -> "VRAM"
      [] InRange(addr, OAMAddrStart, OAMMirrorEnd) -> "OAM"
      [] InRange(addr, GamePakAddrStartWS0, GamePakAddrEndWS0)
         \/ InRange(addr, GamePakAddrStartWS1, GamePakAddrEndWS1)
         \/ InRange(addr, GamePakAddrStartWS2, GamePakAddrEndWS2) -> "ROM"
      [] InRange(addr, GamePakSRAMAddrStart, GamePakSRAMAddrEnd) -> "SRAM"
      [] OTHER -> "open"

WriteRegion(addr) ==
    CASE Le32(addr, BIOSAddrEnd) -> "BIOS"
      [] InRange(addr, EWRAMAddrStart, EWRAMAddrEnd) -> "EWRAM"
      [] InRange(addr, IWRAMAddrStart, IWRAMAddrEnd) -> "IWRAM"
      [] InRange(addr, IOAddrStart, Word(1024, 1022)) -> "IO"
      [] InRange(addr, VRAMAddrStart, VRAMAddrEnd) -> "VRAM"
      [] InRange(addr, OAMAddrStart, OAMAddrEnd) -> "OAM"
      [] InRange(addr, GamePakAddrStartWS0, GamePakAddrEndWS2) -> "ROM"
      [] InRange(addr, GamePakSRAMAddrStart, GamePakSRAMAddrEnd) -> "SRAM"
      [] OTHER -> "open"

\* Cartridge.ReadROM8 indexes the ROM slice with the full bus address.
ReadROM8Panics(b, addr) == addr[1] * Half + addr[2] >= Len(b.ROM)

\* The cases of Bus.Read8 that end in a Go panic: the PPU's palette and VRAM
\* accessors call GetIORegsPtr on the bus, which Bus does not implement (the
\* embedded interface is nil); the cartridge slices are indexed out of range.
ReadCasePanics(b, addr, region) ==
    CASE region = "PALRAM" -> TRUE
      [] region = "VRAM" -> TRUE
      [] region = "ROM" -> ReadROM8Panics(b, addr)
      [] region = "SRAM" -> Offset(addr, GamePakSRAMAddrStart) >= SRAM_SIZE
      [] OTHER -> FALSE

Read8Panics(b, addr) == ReadCasePanics(b, addr, ReadRegion(addr))

\* I/O reads: display registers come from the PPU, the rest from IORegs.
ReadIO(b, maskedAddr) ==
    IF IsPPUIORegister(maskedAddr) THEN ReadIORegister8(b, maskedAddr)
    ELSE ArrayRead(b.IORegs, maskedAddr)

\* A faulty Read8 whose default case returns 0 instead of the open-bus
\* byte; OpenBusAccess must tell it from ReadCase.
ReadCaseOpenZero(b, addr, region) ==
    CASE region = "BIOS" -> ArrayRead(b.BIOS, Offset(addr, BIOSAddrStart))
      [] region = "EWRAM" ->
           ArrayRead(b.EWRAM, Offset(addr, EWRAMAddrStart) % EWRAMSize)
      [] region = "IWRAM" ->
           ArrayRead(b.IWRAM, Offset(addr, IWRAMAddrStart) % IWRAMSize)
      [] region = "IO" -> ReadIO(b, Offset(addr, IOAddrStart) % IOSize)
      [] region = "ROM" /\ ~ReadROM8Panics(b, addr) ->
           b.ROM[addr[1] * Half + addr[2] + 1]
      [] region = "SRAM" ->
           ArrayRead(b.SRAM, Offset(addr, GamePakSRAMAddrStart))
      [] OTHER -> 0

\* The value each case of Bus.Read8 returns.
ReadCase(b, addr, region) ==
    CASE region = "BIOS" -> ArrayRead(b.BIOS, Offset(addr, BIOSAddrStart))
      [] region = "EWRAM" ->
           ArrayRead(b.EWRAM, Offset(addr, EWRAMAddrStart) % EWRAMSize)
      [] region = "IWRAM" ->
           ArrayRead(b.IWRAM, Offset(addr, IWRAMAddrStart) % IWRAMSize)
      [] region = "IO" -> ReadIO(b, Offset(addr, IOAddrStart) % IOSize)
      [] region = "OAM" -> 0
      [] region = "ROM" /\ ~ReadROM8Panics(b, addr) ->
           b.ROM[addr[1] * Half + addr[2] + 1]
      [] region = "SRAM" ->
           ArrayRead(b.SRAM, Offset(addr, GamePakSRAMAddrStart))
      [] OTHER -> 255

Read8(b, addr) == ReadCase(b, addr, ReadRegion(addr))

\* The cases of Bus.Write8 that panic.
WriteCasePanics(addr, region) ==
    CASE region = "VRAM" -> TRUE
      [] region = "SRAM" -> Offset(addr, GamePakSRAMAddrStart) >= SRAM_SIZE
      [] OTHER -> FALSE

Write8Panics(b, addr) == WriteCasePanics(addr, WriteRegion(addr))

\* A faulty Write8 that hands cartridge-window writes to
\* Cartridge.WriteROM8 with the local offset;
\* ReadOnlyWindowsDropContainedWrites must tell it from WriteCase.
WriteCaseRomWritable(b, addr, value, region) ==
    CASE region = "EWRAM" ->
           [b EXCEPT !.EWRAM =
               ArrayWrite(@, Offset(addr, EWRAMAddrStart), value)]
      [] region = "IWRAM" ->
           [b EXCEPT !.IWRAM =
               ArrayWrite(@, Offset(addr, IWRAMAddrStart), value)]
      [] region = "IO" ->
           [b EXCEPT !.IORegs =
               ArrayWrite(@, Offset(addr, IOAddrStart), value)]
      [] region = "ROM" ->
           [b EXCEPT !.ROM =
               [i \in DOMAIN @ |->
                   IF i = Offset(addr, GamePakAddrStartWS0) + 1 THEN value
                   ELSE @[i]]]
      [] region = "SRAM" /\ ~WriteCasePanics(addr, region) ->
           [b EXCEPT !.SRAM =
               ArrayWrite(@, Offset(addr, GamePakSRAMAddrStart), value)]
      [] OTHER -> b

\* The store each case of Bus.Write8 makes.
WriteCase(b, addr, value, region) ==
    CASE region = "EWRAM" ->
           [b EXCEPT !.EWRAM =
               ArrayWrite(@, Offset(addr, EWRAMAddrStart), value)]
      [] region = "IWRAM" ->
           [b EXCEPT !.IWRAM =
               ArrayWrite(@, Offset(addr, IWRAMAddrStart), value)]
      [] region = "IO" ->
           [b EXCEPT !.IORegs =
               ArrayWrite(@, Offset(addr, IOAddrStart), value)]
      [] region = "SRAM" /\ ~WriteCasePanics(addr, region) ->
           [b EXCEPT !.SRAM =
               ArrayWrite(@, Offset(addr, GamePakSRAMAddrStart), value)]
      [] OTHER -> b

Write8(b, addr, value) == WriteCase(b, addr, value, WriteRegion(addr))

AddrPlus(addr, k) == Add32(addr, U32(k))

Read16Panics(b, addr) == \E k \in 0..1 : Read8Panics(b, AddrPlus(addr, k))

Read16(b, addr) ==
    Read8(b, AddrPlus(addr, 1)) * 256 + Read8(b, addr)

Read32Panics(b, addr) == \E k \in 0..3 : Read8Panics(b, AddrPlus(addr, k))

\* (b3 << 24) | (b2 << 16) | (b1 << 8) | b0
Read32(b, addr) ==
    Word(Read8(b, AddrPlus(addr, 3)) * 256 + Read8(b, AddrPlus(addr, 2)),
         Read8(b, AddrPlus(addr, 1)) * 256 + Read8(b, addr))

Write32Panics(b, addr) == \E k \in 0..3 : Write8Panics(b, AddrPlus(addr, k))

\* byte k of a uint32, uint8(value >> (8 * k))
ByteOf(value, k) == Field(value, 8 * k, 8)

\* The first n byte writes of Write32, in order.
RECURSIVE WriteBytes(_, _, _, _)
WriteBytes(b, addr, value, n) ==
    IF n = 0 THEN b
    ELSE LET before == WriteBytes(b, addr, value, n - 1)
             at == AddrPlus(addr, n - 1)
         IN  IF Write8Panics(before, at) THEN before
             ELSE Write8(before, at, ByteOf(value, n - 1))

\* Write32: four Write8 calls, low byte first; a panicking Write8 ends the
\* call with the earlier bytes written.
Write32(b, addr, value) ==
    LET firstBad == {k \in 0..3 : Write8Panics(b, AddrPlus(addr, k))}
    IN  IF firstBad = {} THEN WriteBytes(b, addr, value, 4)
        ELSE WriteBytes(b, addr, value,
                        CHOOSE k \in firstBad : \A j \in firstBad : k <= j)

Write16Panics(b, addr) == \E k \in 0..1 : Write8Panics(b, AddrPlus(addr, k))

Write16(b, addr, value) ==
    LET firstBad == {k \in 0..1 : Write8Panics(b, AddrPlus(addr, k))}
    IN  IF firstBad = {} THEN WriteBytes(b, addr, U32(value), 2)
        ELSE WriteBytes(b, addr, U32(value),
                        CHOOSE k \in firstBad : \A j \in firstBad : k <= j)

\* The bus as NewBus wires it: zeroed work RAMs and I/O file, a zeroed SRAM,
\* the embedded boot ROM image and the cartridge image given to it, the
\* PPU's display control, scanline counter and frame flag, and the bus's
\* cycle counter.  The PPU's Frame image is not part of the state.
NewBus(biosData, romData) ==
    [BIOS |-> biosData, EWRAM |-> <<>>, IWRAM |-> <<>>, IORegs |-> <<>>,
     SRAM |-> <<>>, ROM |-> romData, dispcnt |-> 0, VCount |-> 0,
     frameReady |-> FALSE, CycleCount |-> 0]

\* PPU.WriteIORegister8: the two bytes of DISPCNT; other offsets are ignored.
WriteIORegister8(b, off, value) ==
    CASE off = 0 -> [b EXCEPT !.dispcnt = ((@ \div 256) * 256) + value]
      [] off = 1 -> [b EXCEPT !.dispcnt = (@ % 256) + (value * 256)]
      [] OTHER -> b

\* Cartridge.WriteROM8 indexes the ROM slice with the address it is given.
WriteROM8Panics(b, addr) == addr[1] * Half + addr[2] >= Len(b.ROM)

WriteROM8(b, addr, value) ==
    IF WriteROM8Panics(b, addr) THEN b
    ELSE [b EXCEPT !.ROM[addr[1] * Half + addr[2] + 1] = value]

ScreenWidth == 240

\* The first pixel address renderMode3 reads: the row offset is computed in
\* 16 bits (VCount is a uint16) before it is widened.
PixelAddr(vcount) ==
    Add32(VRAMAddrStart, U32((vcount * ScreenWidth * 2) % Half))

\* PPU.RenderScanline: mode 3 reads the row's pixels through Bus.Read8 and
\* stops at the first read that panics; every other mode only paints Frame.
RenderScanlinePanics(b) ==
    b.dispcnt % 8 = 3 /\ Read8Panics(b, PixelAddr(b.VCount))

\* PPU.Tick: one scanline per 1232 cycles, 228 scanlines a frame, a render
\* on the visible lines and the frame flag on line 160.
PPUTick(b, n) ==
    LET lines == (n \div 1232) % Half
        moved == [b EXCEPT !.VCount = ((@ + lines) % Half) % 228]
    IN  IF moved.VCount < 160 /\ RenderScanlinePanics(moved)
        THEN [bus |-> moved, panicked |-> TRUE]
        ELSE [bus |-> [moved EXCEPT !.frameReady = @ \/ moved.VCount = 160],
              panicked |-> FALSE]

\* Bus.Tick: the cycle counter, the PPU, then the Tick methods of Timers,
\* DMAController and APU.  NewBus leaves these three fields nil and their
\* packages are not in the tree, so whether a call on the nil pointer
\* returns or panics is an input (nilTickPanics).
Tick(b, n, nilTickPanics) ==
    LET ppu == PPUTick([b EXCEPT !.CycleCount = @ + n], n)
    IN  [bus |-> ppu.bus, panicked |-> ppu.panicked \/ nilTickPanics]

----------------------------------------------------------------------------
(* Decoder: internal/cpu/arm_decode.go                                     *)

EQ == 0
NE == 1
CS == 2
CC == 3
MI == 4
PL == 5
VS == 6
VC == 7
HI == 8
LS == 9
GE == 10
LT == 11
GT == 12
LE == 13
AL == 14
NV == 15

AND == 0
EOR == 1
SUB == 2
RSB == 3
ADD == 4
ADC == 5
SBC == 6
RSC == 7
TST == 8
TEQ == 9
CMP == 10
CMN == 11
ORR == 12
MOV == 13
BIC == 14
MVN == 15

LSL == 0
LSR == 1
ASR == 2
ROR == 3

ARMITDataProcessing == "Data Processing"
ARMITLoadStore == "Load/Store Single Data Transfer"
ARMITBranch == "Branch"
ARMITBlockDataTransfer == "Block Data Transfer"
ARMITSWI == "Software Interrupt"
ARMITMultiply == "Multiply"
ARMITTransferMRS == "PSR Transfer (MRS)"
ARMITTransferMSR == "PSR Transfer (MSR)"
ARMITBranchExchange == "Branch and Exchange"
ARMITUndefined == "Undefined"

\* ARMInstruction{}: the zero value of the struct, with the error result of
\* DecodeInstruction_Arm as the field err.
ZeroInstruction ==
    [Type |-> "", Cond |-> 0, S |-> FALSE, OpcodeDP |-> 0,
     Rn |-> 0, Rd |-> 0, Rm |-> 0, Immediate |-> Zero32, I |-> FALSE,
     ShiftType |-> 0, ShiftImm |-> 0, Rs |-> 0, RotateImm |-> 0,
     L |-> FALSE, P |-> FALSE, U |-> FALSE, B |-> FALSE, W |-> FALSE,
     Offset |-> 0, OffsetBranch |-> Zero32, Link |-> FALSE,
     Exchange |-> FALSE, SWIComment |-> Zero32, RegisterList |-> 0,
     A |-> FALSE, RdHi |-> 0, RdLo |-> 0, err |-> FALSE]

DecodeError == [ZeroInstruction EXCEPT !.err = TRUE]

\* (imm8 >> (rot*2)) | (imm8 << (32 - rot*2)), the shift counts being uint8
RotatedImmediate(instruction) ==
    LET rot == Field(instruction, 8, 4)
        imm8 == U32(Field(instruction, 0, 8))
    IN  Or32(Shr32(imm8, rot * 2), Shl32(imm8, 32 - rot * 2))

\* The sign-extended 24-bit branch offset, as the uint32 it converts to.
BranchOffset(instruction) ==
    LET offset == And32(instruction, Word(255, 65535))
    IN  IF Bit32(offset, 23) = 1 THEN Or32(offset, Word(65280, 0)) ELSE offset

DecodeInstruction_Arm(instruction) ==
    LET decoded == [ZeroInstruction EXCEPT !.Cond = Field(instruction, 28, 4)]
        bit(n) == Bit32(instruction, n) = 1
    IN  CASE Field(instruction, 24, 8) = 15 ->
               [decoded EXCEPT !.Type = ARMITSWI,
                               !.SWIComment = And32(instruction, Word(255, 65535))]
          [] And32(instruction, Word(4095, 65520)) = Word(303, 65296)
             \/ And32(instruction, Word(4095, 65520)) = Word(303, 65328) ->
               [decoded EXCEPT !.Type = ARMITBranchExchange,
                               !.Rm = Field(instruction, 0, 4),
                               !.Exchange = TRUE,
                               !.Link = bit(5)]
          [] Field(instruction, 24, 4) = 0 /\ Field(instruction, 4, 4) = 9 ->
               IF Field(instruction, 22, 2) = 1
               THEN [decoded EXCEPT !.Type = ARMITMultiply,
                                    !.A = bit(21), !.S = bit(20),
                                    !.RdHi = Field(instruction, 16, 4),
                                    !.RdLo = Field(instruction, 12, 4),
                                    !.Rs = Field(instruction, 8, 4),
                                    !.Rm = Field(instruction, 0, 4),
                                    !.Rn = 0]
               ELSE [decoded EXCEPT !.Type = ARMITMultiply,
                                    !.A = bit(21), !.S = bit(20),
                                    !.Rd = Field(instruction, 16, 4),
                                    !.Rn = Field(instruction, 12, 4),
                                    !.Rs = Field(instruction, 8, 4),
                                    !.Rm = Field(instruction, 0, 4)]
          [] And32(instruction, Word(4016, 61440)) = Word(256, 0)
             \/ And32(instruction, Word(4064, 0)) = Word(800, 0) ->
               IF And32(instruction, Word(4080, 240)) = Word(256, 0)
                  /\ Field(instruction, 21, 3) = 5
               THEN [decoded EXCEPT !.Type = ARMITTransferMRS,
                                    !.Rd = Field(instruction, 12, 4)]
               ELSE IF Field(instruction, 21, 3) = 4
                       \/ Field(instruction, 21, 3) = 6
               THEN IF bit(25)
                    THEN [decoded EXCEPT !.Type = ARMITTransferMSR,
                                         !.I = TRUE,
                                         !.RotateImm = Field(instruction, 8, 4),
                                         !.Immediate = RotatedImmediate(instruction)]
                    ELSE [decoded EXCEPT !.Type = ARMITTransferMSR,
                                         !.Rm = Field(instruction, 0, 4)]
               ELSE DecodeError
          [] Field(instruction, 26, 2) = 0 ->
               LET dp == [decoded EXCEPT !.Type = ARMITDataProcessing,
                                         !.I = bit(25),
                                         !.OpcodeDP = Field(instruction, 21, 4),
                                         !.S = bit(20),
                                         !.Rn = Field(instruction, 16, 4),
                                         !.Rd = Field(instruction, 12, 4)]
               IN  IF bit(25)
                   THEN [dp EXCEPT !.RotateImm = Field(instruction, 8, 4),
                                   !.Immediate = RotatedImmediate(instruction)]
                   ELSE IF ~bit(4)
                   THEN [dp EXCEPT !.Rm = Field(instruction, 0, 4),
                                   !.ShiftType = Field(instruction, 5, 2),
                                   !.ShiftImm = Field(instruction, 7, 5)]
                   ELSE IF bit(7) THEN DecodeError
                   ELSE [dp EXCEPT !.Rm = Field(instruction, 0, 4),
                                   !.ShiftType = Field(instruction, 5, 2),
                                   !.Rs = Field(instruction, 8, 4)]
          [] Field(instruction, 26, 2) = 1 ->
               LET ls == [decoded EXCEPT !.Type = ARMITLoadStore,
                                         !.P = bit(24), !.U = bit(23),
                                         !.B = bit(22), !.W = bit(21),
                                         !.L = bit(20),
                                         !.Rn = Field(instruction, 16, 4),
                                         !.Rd = Field(instruction, 12, 4)]
               IN  IF ~bit(25)
                   THEN [ls EXCEPT !.Offset = Field(instruction, 0, 12)]
                   ELSE IF bit(4) THEN DecodeError
                   ELSE [ls EXCEPT !.Rm = Field(instruction, 0, 4),
                                   !.ShiftType = Field(instruction, 5, 2),
                                   !.ShiftImm = Field(instruction, 7, 5)]
          [] Field(instruction, 25, 3) = 4 ->
               [decoded EXCEPT !.Type = ARMITBlockDataTransfer,
                               !.P = bit(24), !.U = bit(23), !.S = bit(22),
                               !.W = bit(21), !.L = bit(20),
                               !.Rn = Field(instruction, 16, 4),
                               !.RegisterList = Field(instruction, 0, 16)]
          [] Field(instruction, 25, 3) = 5 ->
               [decoded EXCEPT !.Type = ARMITBranch,
                               !.Link = bit(24),
                               !.OffsetBranch = BranchOffset(instruction)]
          [] OTHER ->
               [decoded EXCEPT !.Type = ARMITUndefined, !.err = TRUE]

----------------------------------------------------------------------------
(* Interpreter: internal/cpu/cpu.go and the execArm_* handlers             *)

One32 == Word(0, 1)
Ones32 == Word(65535, 65535)
SignBit32 == Word(32768, 0)

\* A faulty condition check under which the reserved condition 0b1111
\* passes; ConditionFailSkips must tell it from checkCondition_Arm.
checkCondition_NVPasses(r, cond) ==
    LET n == GetFlagN(r)
        z == GetFlagZ(r)
        c_flag == GetFlagC(r)
        v == GetFlagV(r)
    IN  CASE cond = EQ -> z
          [] cond = NE -> ~z
          [] cond = CS -> c_flag
          [] cond = CC -> ~c_flag
          [] cond = MI -> n
          [] cond = PL -> ~n
          [] cond = VS -> v
          [] cond = VC -> ~v
          [] cond = HI -> c_flag /\ ~z
          [] cond = LS -> ~c_flag \/ z
          [] cond = GE -> n = v
          [] cond = LT -> n # v
          [] cond = GT -> ~z /\ (n = v)
          [] cond = LE -> z \/ (n # v)
          [] OTHER -> TRUE

checkCondition_Arm(r, cond) ==
    LET n == GetFlagN(r)
        z == GetFlagZ(r)
        c_flag == GetFlagC(r)
        v == GetFlagV(r)
    IN  CASE cond = EQ -> z
          [] cond = NE -> ~z
          [] cond = CS -> c_flag
          [] cond = CC -> ~c_flag
          [] cond = MI -> n
          [] cond = PL -> ~n
          [] cond = VS -> v
          [] cond = VC -> ~v
          [] cond = HI -> c_flag /\ ~z
          [] cond = LS -> ~c_flag \/ z
          [] cond = GE -> n = v
          [] cond = LT -> n # v
          [] cond = GT -> ~z /\ (n = v)
          [] cond = LE -> z \/ (n # v)
          [] cond = AL -> TRUE
          [] cond = NV -> FALSE
          [] OTHER -> FALSE

checkOverflow(rn, rm, result, opcode) ==
    CASE opcode \in {ADD, ADC, CMN} ->
           And32(And32(Xor32(rn, result), Xor32(rm, result)), SignBit32) # Zero32
      [] opcode \in {SUB, SBC, CMP, RSB, RSC} ->
           And32(And32(Xor32(rn, rm), Xor32(rn, result)), SignBit32) # Zero32
      [] OTHER -> FALSE

\* setFlags reads Rn and Rm from the register file as it is when called,
\* that is after the handler has stored its result.
setFlags(r, result, carryOut, instruction) ==
    LET r1 == SetFlagN(r, And32(result, SignBit32) # Zero32)
        r2 == SetFlagZ(r1, result = Zero32)
        r3 == SetFlagC(r2, carryOut)
    IN  IF instruction.OpcodeDP \in {ADD, ADC, SUB, SBC, RSB, RSC, CMP, CMN}
        THEN SetFlagV(r3, checkOverflow(GetReg(r3, instruction.Rn),
                                        GetReg(r3, instruction.Rm),
                                        result, instruction.OpcodeDP))
        ELSE SetFlagV(r3, FALSE)

\* applyShift returns <<shifted value, carry-out>>.
applyShift(r, value, shiftType, shiftAmount) ==
    LET rrx == <<Or32(Shr32(value, 1),
                      Shl32(U32(IF GetFlagC(r) THEN 1 ELSE 0), 31)),
                 Bit32(value, 0) = 1>>
    IN  IF shiftAmount = 0
        THEN IF shiftType = ROR THEN rrx ELSE <<value, FALSE>>
        ELSE CASE shiftType = LSL ->
                    IF shiftAmount >= 32
                    THEN <<Zero32, shiftAmount = 32 /\ Bit32(value, 0) = 1>>
                    ELSE <<Shl32(value, shiftAmount),
                           Bit32(value, 32 - shiftAmount) = 1>>
               [] shiftType = LSR ->
                    IF shiftAmount >= 32
                    THEN <<Zero32, shiftAmount = 32 /\ Bit32(value, 31) = 1>>
                    ELSE <<Shr32(value, shiftAmount),
                           Bit32(value, shiftAmount - 1) = 1>>
               [] shiftType = ASR ->
                    IF shiftAmount >= 32
                    THEN <<IF Bit32(value, 31) = 1 THEN Ones32 ELSE Zero32,
                           Bit32(value, 31) = 1>>
                    ELSE <<IF Bit32(value, 31) = 1
                           THEN Or32(Shr32(value, shiftAmount),
                                     Shl32(Ones32, 32 - shiftAmount))
                           ELSE Shr32(value, shiftAmount),
                           Bit32(value, shiftAmount - 1) = 1>>
               [] shiftType = ROR ->
                    LET actualShift == shiftAmount % 32
                    IN  IF actualShift = 0 THEN rrx
                        ELSE <<Or32(Shr32(value, actualShift),
                                    Shl32(value, 32 - actualShift)),
                               Bit32(value, actualShift - 1) = 1>>

\* A faulty calcOp2 that leaves the value alone for every shift amount 0,
\* ROR included; RotateByZeroIsRRX must tell it from calcOp2.
calcOp2WithoutRRX(r, instruction) ==
    IF instruction.I
    THEN <<instruction.Immediate,
           instruction.RotateImm # 0 /\ Bit32(instruction.Immediate, 31) = 1>>
    ELSE LET rmVal == GetReg(r, instruction.Rm)
             shiftAmount == IF instruction.Rs # 0
                            THEN Field(GetReg(r, instruction.Rs), 0, 8)
                            ELSE instruction.ShiftImm
         IN  IF shiftAmount = 0 THEN <<rmVal, FALSE>>
             ELSE applyShift(r, rmVal, instruction.ShiftType, shiftAmount)

\* calcOp2 returns <<operand2, shifter carry-out>>.
calcOp2(r, instruction) ==
    IF instruction.I
    THEN <<instruction.Immediate,
           instruction.RotateImm # 0 /\ Bit32(instruction.Immediate, 31) = 1>>
    ELSE LET rmVal == GetReg(r, instruction.Rm)
             shiftAmount == IF instruction.Rs # 0
                            THEN Field(GetReg(r, instruction.Rs), 0, 8)
                            ELSE instruction.ShiftImm
         IN  applyShift(r, rmVal, instruction.ShiftType, shiftAmount)

\* The common tail of the data-processing handlers: store the result in the
\* register `dest`, then setFlags when `flags` holds.
StoreAndFlag(r, instruction, dest, result, carryOut, flags) ==
    LET stored == SetReg(r, dest, result)
    IN  IF flags THEN setFlags(stored, result, carryOut, instruction)
        ELSE stored

\* ADD stores its result in Rn.
execArm_Add(r, instruction) ==
    LET op2 == calcOp2(r, instruction)
        result == Add32(GetReg(r, instruction.Rn), op2[1])
    IN  StoreAndFlag(r, instruction, instruction.Rn, result, op2[2], instruction.S)

\* ADC, SBC and RSC use cy := 0.
execArm_Adc(r, instruction) ==
    LET op2 == calcOp2(r, instruction)
        result == Add32(Add32(GetReg(r, instruction.Rn), op2[1]), Zero32)
    IN  StoreAndFlag(r, instruction, instruction.Rd, result, op2[2], instruction.S)

execArm_Sbc(r, instruction) ==
    LET op2 == calcOp2(r, instruction)
        result == Sub32(Add32(Sub32(GetReg(r, instruction.Rn), op2[1]), Zero32),
                        One32)
    IN  StoreAndFlag(r, instruction, instruction.Rd, result, op2[2], instruction.S)

execArm_Rsc(r, instruction) ==
    LET op2 == calcOp2(r, instruction)
        result == Sub32(Add32(Sub32(op2[1], GetReg(r, instruction.Rn)), Zero32),
                        One32)
    IN  StoreAndFlag(r, instruction, instruction.Rd, result, op2[2], instruction.S)

\* TST, TEQ, CMP and CMN compute a result and discard it; nothing is stored.
execArm_Tst(r, instruction) == r
execArm_Teq(r, instruction) == r
execArm_Cmp(r, instruction) == r
execArm_Cmn(r, instruction) == r

execArm_Sub(r, instruction) ==
    LET op2 == calcOp2(r, instruction)
        result == Sub32(GetReg(r, instruction.Rn), op2[1])
    IN  StoreAndFlag(r, instruction, instruction.Rd, result, op2[2], instruction.S)

execArm_Rsb(r, instruction) ==
    LET op2 == calcOp2(r, instruction)
        result == Sub32(op2[1], GetReg(r, instruction.Rn))
    IN  StoreAndFlag(r, instruction, instruction.Rd, result, op2[2], instruction.S)

\* AND alone skips setFlags when Rd is R15.
execArm_And(r, instruction) ==
    LET op2 == calcOp2(r, instruction)
        result == And32(GetReg(r, instruction.Rn), op2[1])
    IN  StoreAndFlag(r, instruction, instruction.Rd, result, op2[2],
                     instruction.S /\ instruction.Rd # 15)

execArm_Orr(r, instruction) ==
    LET op2 == calcOp2(r, instruction)
        result == Or32(GetReg(r, instruction.Rn), op2[1])
    IN  StoreAndFlag(r, instruction, instruction.Rd, result, op2[2], instruction.S)

execArm_Mov(r, instruction) ==
    LET op2 == calcOp2(r, instruction)
    IN  StoreAndFlag(r, instruction, instruction.Rd, op2[1], op2[2], instruction.S)

execArm_Bic(r, instruction) ==
    LET op2 == calcOp2(r, instruction)
        result == AndNot32(GetReg(r, instruction.Rn), op2[1])
    IN  StoreAndFlag(r, instruction, instruction.Rd, result, op2[2], instruction.S)

execArm_Mvn(r, instruction) ==
    LET op2 == calcOp2(r, instruction)
    IN  StoreAndFlag(r, instruction, instruction.Rd, Not32(op2[1]), op2[2],
                     instruction.S)

execArm_Eor(r, instruction) ==
    LET op2 == calcOp2(r, instruction)
        result == Xor32(GetReg(r, instruction.Rn), op2[1])
    IN  StoreAndFlag(r, instruction, instruction.Rd, result, op2[2], instruction.S)

\* The inner switch of execute_Arm on inst.OpcodeDP.
execArm_DataProcessing(r, inst) ==
    CASE inst.OpcodeDP = AND -> execArm_And(r, inst)
      [] inst.OpcodeDP = EOR -> execArm_Eor(r, inst)
      [] inst.OpcodeDP = SUB -> execArm_Sub(r, inst)
      [] inst.OpcodeDP = RSB -> execArm_Rsb(r, inst)
      [] inst.OpcodeDP = ADD -> execArm_Add(r, inst)
      [] inst.OpcodeDP = ADC -> execArm_Adc(r, inst)
      [] inst.OpcodeDP = SBC -> execArm_Sbc(r, inst)
      [] inst.OpcodeDP = RSC -> execArm_Rsc(r, inst)
      [] inst.OpcodeDP = TST -> execArm_Tst(r, inst)
      [] inst.OpcodeDP = TEQ -> execArm_Teq(r, inst)
      [] inst.OpcodeDP = CMP -> execArm_Cmp(r, inst)
      [] inst.OpcodeDP = CMN -> execArm_Cmn(r, inst)
      [] inst.OpcodeDP = ORR -> execArm_Orr(r, inst)
      [] inst.OpcodeDP = MOV -> execArm_Mov(r, inst)
      [] inst.OpcodeDP = BIC -> execArm_Bic(r, inst)
      [] inst.OpcodeDP = MVN -> execArm_Mvn(r, inst)

(* The handlers below work on the CPU and its bus together: a machine m is *)
(* [regs, bus, pipeline, panicked].  A Go panic ends the handler at once:  *)
(* the machine keeps what was written before it and panicked becomes TRUE. *)

Panic(m) == [m EXCEPT !.panicked = TRUE]

\* One refill of FlushPipeline: Pipeline[slot] = Read32(PC), then PC += 4.
Refill(m, slot) ==
    IF Read32Panics(m.bus, m.regs.PC) THEN Panic(m)
    ELSE [m EXCEPT !.pipeline[slot] = Read32(m.bus, m.regs.PC),
                   !.regs.PC = Add32(m.regs.PC, U32(4))]

\* The second refill is not reached when the first read panicked.
RefillSecond(m) == IF m.panicked THEN m ELSE Refill(m, 2)

\* FlushPipeline: two fetches at PC, each followed by PC += 4.
FlushPipeline(m) == RefillSecond(Refill(m, 1))

\* execArm_Branch tests the condition it extracts from bits 31:28 of
\* currentInstructionAddr, and adds the decoded offset as it is.
execArm_Branch(m, inst, currentInstructionAddr) ==
    IF ~checkCondition_Arm(m.regs, Field(currentInstructionAddr, 28, 4))
    THEN FlushPipeline([m EXCEPT !.regs.PC = Add32(currentInstructionAddr, U32(4))])
    ELSE LET targetAddress == Add32(Add32(currentInstructionAddr, U32(8)),
                                    inst.OffsetBranch)
             linked == IF inst.Link
                       THEN SetReg(m.regs, 14, Add32(currentInstructionAddr, U32(4)))
                       ELSE m.regs
         IN  FlushPipeline([m EXCEPT !.regs = [linked EXCEPT !.PC = targetAddress]])

\* The write-back step of execArm_LoadStore.
LoadStoreWriteBack(m, inst, baseAddr, effectiveOffset, finalAddr) ==
    IF m.panicked \/ ~inst.W THEN m
    ELSE IF inst.P
    THEN [m EXCEPT !.regs = SetReg(m.regs, inst.Rn, Add32(baseAddr, effectiveOffset))]
    ELSE [m EXCEPT !.regs = SetReg(m.regs, inst.Rn, finalAddr)]

execArm_LoadStore(m, inst, currentInstructionAddr) ==
    LET baseAddr == GetReg(m.regs, inst.Rn)
        offset == U32(inst.Offset)
        effectiveOffset == IF inst.U THEN Add32(Not32(offset), One32) ELSE offset
        finalAddr == IF inst.P THEN Add32(baseAddr, effectiveOffset) ELSE baseAddr
        loadPanics == IF inst.B THEN Read8Panics(m.bus, finalAddr)
                      ELSE Read32Panics(m.bus, finalAddr)
        loadedValue == IF inst.B THEN U32(Read8(m.bus, finalAddr))
                       ELSE Read32(m.bus, finalAddr)
        loaded == SetReg(m.regs, inst.Rd, loadedValue)
        toPC == IF Bit32(loadedValue, 0) = 1
                THEN [SetThumbState(loaded, TRUE) EXCEPT
                          !.PC = And32(loadedValue, Word(65535, 65534))]
                ELSE [SetThumbState(loaded, FALSE) EXCEPT
                          !.PC = And32(loadedValue, Word(65535, 65532))]
        valueToStore == GetReg(m.regs, inst.Rd)
        transferred ==
            IF inst.L
            THEN IF loadPanics THEN Panic(m)
                 ELSE IF inst.Rd = 15 THEN FlushPipeline([m EXCEPT !.regs = toPC])
                 ELSE [m EXCEPT !.regs = loaded]
            ELSE IF inst.B
            THEN IF Write8Panics(m.bus, finalAddr) THEN Panic(m)
                 ELSE [m EXCEPT !.bus = Write8(m.bus, finalAddr,
                                               Field(valueToStore, 0, 8))]
            ELSE IF Write32Panics(m.bus, finalAddr)
                 THEN Panic([m EXCEPT !.bus = Write32(m.bus, finalAddr, valueToStore)])
                 ELSE [m EXCEPT !.bus = Write32(m.bus, finalAddr, valueToStore)]
    IN  LoadStoreWriteBack(transferred, inst, baseAddr, effectiveOffset, finalAddr)

\* A faulty SWI entry that clears CPSR[4:0] and never writes the supervisor
\* code back; ModeAlwaysValid must tell it from execArm_SWI.
execArm_SWI_ModeCleared(m, inst) ==
    [m EXCEPT !.regs.CPSR = And32(@, Word(65535, 65504)), !.regs.PC = U32(8)]

execArm_SWI(m, inst) ==
    LET r1 == SetMode(m.regs, SVCMode)
        r2 == SetReg(r1, 14, Sub32(r1.PC, U32(4)))
        r3 == SetSPSR(r2, r2.CPSR)
        r4 == [r3 EXCEPT !.CPSR = Or32(And32(r3.CPSR, Word(65535, 65504)), U32(19))]
        r5 == [r4 EXCEPT !.CPSR = Or32(r4.CPSR, Shl32(One32, 7))]
    IN  [m EXCEPT !.regs = [r5 EXCEPT !.PC = U32(8)]]

InList(list, i) == (list \div Pow2(i)) % 2 = 1

NumRegisters(list) == Cardinality({i \in 0..15 : InList(list, i)})

\* The transfer loop of execArm_BlockDataTransfer after its first n
\* iterations (registers 0..n-1), as <<machine, currentTransferAddr>>.
RECURSIVE BlockTransferLoop(_, _, _, _, _)
BlockTransferLoop(m, inst, currentInstructionAddr, startAddr, n) ==
    IF n = 0 THEN <<m, startAddr>>
    ELSE LET before == BlockTransferLoop(m, inst, currentInstructionAddr,
                                         startAddr, n - 1)
             mi == before[1]
             addr == before[2]
             i == n - 1
             next == IF inst.U THEN Add32(addr, U32(4)) ELSE Sub32(addr, U32(4))
             val == Read32(mi.bus, addr)
             stored == IF i = 15 THEN Add32(currentInstructionAddr, U32(12))
                       ELSE GetReg(mi.regs, i)
         IN  IF mi.panicked \/ ~InList(inst.RegisterList, i) THEN before
             ELSE IF inst.L
             THEN IF Read32Panics(mi.bus, addr) THEN <<Panic(mi), addr>>
                  ELSE IF i = 15
                  THEN <<FlushPipeline(
                            [mi EXCEPT !.regs = SetReg(mi.regs, 15,
                                            And32(val, Word(65535, 65532)))]),
                         next>>
                  ELSE <<[mi EXCEPT !.regs = SetReg(mi.regs, i, val)], next>>
             ELSE IF Write32Panics(mi.bus, addr)
                  THEN <<Panic([mi EXCEPT !.bus = Write32(mi.bus, addr, stored)]),
                         addr>>
                  ELSE <<[mi EXCEPT !.bus = Write32(mi.bus, addr, stored)], next>>

execArm_BlockDataTransfer(m, inst, currentInstructionAddr) ==
    LET baseAddr == GetReg(m.regs, inst.Rn)
        span == U32(NumRegisters(inst.RegisterList) * 4)
        currentTransferAddr ==
            IF inst.U
            THEN IF inst.P THEN Add32(baseAddr, U32(4)) ELSE baseAddr
            ELSE IF inst.P THEN Add32(Sub32(baseAddr, span), U32(4)) ELSE baseAddr
        finalBaseAddr == IF inst.U THEN Add32(baseAddr, span)
                         ELSE Sub32(baseAddr, span)
        done == BlockTransferLoop(m, inst, currentInstructionAddr,
                                  currentTransferAddr, 16)[1]
    IN  IF done.panicked \/ ~inst.W THEN done
        ELSE [done EXCEPT !.regs = SetReg(done.regs, inst.Rn, finalBaseAddr)]

PSR_FLAGS == Word(65280, 0)
PSR_STATUS == Word(255, 0)
PSR_EXTENSION == Word(0, 65280)
PSR_CONTROL == Word(0, 255)

\* execArm_Mrs re-reads the instruction word from the bus at PC - 8.
execArm_Mrs(m, inst) ==
    LET rawAddr == Sub32(m.regs.PC, U32(8))
        psrSourceBit == Bit32(Read32(m.bus, rawAddr), 22)
        mode == GetMode(m.regs)
    IN  IF Read32Panics(m.bus, rawAddr) THEN Panic(m)
        ELSE IF psrSourceBit = 0
        THEN [m EXCEPT !.regs = SetReg(m.regs, inst.Rd, m.regs.CPSR)]
        ELSE IF mode = USRMode \/ mode = SYSMode THEN Panic(m)
        ELSE [m EXCEPT !.regs = SetReg(m.regs, inst.Rd, GetSPSR(m.regs))]

\* execArm_Msr computes the new PSR value into a local variable and returns:
\* neither CPSR nor an SPSR is assigned.
execArm_Msr(m, inst) ==
    LET rawAddr == Sub32(m.regs.PC, U32(8))
        psrDestBit == Bit32(Read32(m.bus, rawAddr), 22)
        mode == GetMode(m.regs)
    IN  IF Read32Panics(m.bus, rawAddr) THEN Panic(m)
        ELSE IF psrDestBit = 1 /\ (mode = USRMode \/ mode = SYSMode) THEN Panic(m)
        ELSE m

executeThumb(m, instruction) == m

execute_Arm(m, instruction) ==
    LET cond == Field(instruction, 28, 4)
        inst == DecodeInstruction_Arm(instruction)
        currentInstructionAddr == Sub32(m.regs.PC, U32(8))
    IN  IF ~checkCondition_Arm(m.regs, cond) THEN m
        ELSE IF inst.err THEN m
        ELSE CASE inst.Type = ARMITDataProcessing ->
                    [m EXCEPT !.regs = execArm_DataProcessing(m.regs, inst)]
               [] inst.Type = ARMITLoadStore ->
                    execArm_LoadStore(m, inst, currentInstructionAddr)
               [] inst.Type = ARMITBranch ->
                    execArm_Branch(m, inst, currentInstructionAddr)
               [] inst.Type = ARMITBlockDataTransfer ->
                    execArm_BlockDataTransfer(m, inst, currentInstructionAddr)
               [] inst.Type = ARMITSWI -> execArm_SWI(m, inst)
               [] inst.Type = ARMITMultiply -> execArm_Mrs(m, inst)
               [] inst.Type = ARMITTransferMRS -> execArm_Mrs(m, inst)
               [] inst.Type = ARMITTransferMSR -> execArm_Msr(m, inst)
               [] OTHER -> Panic(m)

\* CPU.Step without its cycle count: fetch at PC, advance PC, execute.
StepMachine(m) ==
    IF IsThumb(m.regs)
    THEN IF Read16Panics(m.bus, m.regs.PC) THEN Panic(m)
         ELSE executeThumb([m EXCEPT !.regs.PC = Add32(@, U32(2))],
                           U32(Read16(m.bus, m.regs.PC)))
    ELSE IF Read32Panics(m.bus, m.regs.PC) THEN Panic(m)
         ELSE execute_Arm([m EXCEPT !.regs.PC = Add32(@, U32(4))],
                          Read32(m.bus, m.regs.PC))

\* A faulty Reset that asks for system mode; ResetState must tell it from
\* ResetRegisters.
ResetInSystemMode == SetMode([NewRegisters EXCEPT !.PC = Zero32], SYSMode)

\* CPU.Reset: a fresh register file; the bus, the pipeline and the cycle
\* count are not touched.
ResetRegisters ==
    SetFIQDisabled(SetIRQDisabled(
        SetMode([NewRegisters EXCEPT !.PC = Zero32], SVCMode), TRUE), TRUE)

----------------------------------------------------------------------------
(* Inputs                                                                  *)

MaxSteps == 2
MaxResets == 1
MaxCalls == 3

\* Encoders of ARM instruction words from their fields.
EncDP(cond, immediate, opcode, setFlag, rn, rd, operand2) ==
    Word(cond * 4096 + immediate * 512 + opcode * 32 + setFlag * 16 + rn,
         rd * 4096 + operand2)

EncBranch(cond, link, offset24) ==
    Word(cond * 4096 + 2560 + link * 256 + offset24 \div Half, offset24 % Half)

EncBlock(cond, pre, up, sbit, wback, load, rn, list) ==
    Word(cond * 4096 + 2048 + pre * 256 + up * 128 + sbit * 64 + wback * 32
         + load * 16 + rn, list)

EncLoadStore(cond, pre, up, byte, wback, load, rn, rd, offset12) ==
    Word(cond * 4096 + 1024 + pre * 256 + up * 128 + byte * 64 + wback * 32
         + load * 16 + rn, rd * 4096 + offset12)

\* The bytes of a sequence of words laid out little-endian from offset 0.
ImageOf(words) ==
    [off \in 0..(4 * Len(words) - 1) |-> ByteOf(words[(off \div 4) + 1], off % 4)]

\* The boot ROM image: MOVS R0,#0; SWIEQ 0x42; B .+8; MOV R1,#1.
BiosImages ==
    { ImageOf(<<Word(\hE3B0, 0), Word(\h0F00, \h0042), Word(\hEA00, 0),
                Word(\hE3A0, \h1001)>>) }

\* The cartridge image, a byte sequence: MOV R0,#0x12; ADD R0,R0,#1.
RomImages ==
    { <<18, 0, 160, 227, 1, 0, 128, 226>> }

ProgBase == Word(\h0300, 0)
ProgAt100 == Word(\h0300, \h0100)
RomBase == Word(\h0800, 0)
StackTop == Word(\h0300, \h7F00)

RegValues ==
    { <<Word(\h8000, 0), Word(\h8000, 0), Word(\h8000, 0)>>,
      <<Word(\hFFFF, \hFFFF), Word(0, 1), Word(0, 1)>>,
      <<Word(0, 5), Word(0, 7), Word(\hFFFF, \hFFFF)>> }

\* Operand2 fields: #1, #0x80000000 (2 ror 2), R0, R2 LSL #1.
Operand2Forms ==
    { <<1, 1>>, <<1, \h102>>, <<0, 0>>, <<0, \h082>> }

DataProcWords ==
    { EncDP(AL, f[1], op, sf, 0, rd, f[2]) :
        f \in Operand2Forms, op \in 0..15, sf \in 0..1, rd \in 0..1 }

\* A test vector: the CPSR flags and mode, R0..R2, further registers, memory
\* words and the PC the driver sets up before it steps the CPU; irqOn asks
\* for SetIRQDisabled(false), which Reset's I=1 otherwise stays without.
Vector(mode, nzcv, r012, more, mem, pc) ==
    [mode |-> mode, nzcv |-> nzcv, r012 |-> r012, more |-> more,
     mem |-> mem, pc |-> pc, irqOn |-> FALSE]

NoFlags == <<FALSE, FALSE, FALSE, FALSE>>

DataProcVectors ==
    { Vector(SVCMode, <<FALSE, FALSE, c, FALSE>>, rv, <<>>,
             <<<<ProgBase, w>>>>, ProgBase) :
        c \in BOOLEAN, rv \in RegValues, w \in DataProcWords }

\* MOV R0,#0x12; ADD R0,R0,#1 and MOV R0,#0x12; ADD R1,R0,#1 in work RAM,
\* and the cartridge's own copy of the first.
ProgramVectors ==
    { Vector(SVCMode, NoFlags, <<Zero32, Zero32, Zero32>>, <<>>,
             <<<<ProgBase, Word(\hE3A0, \h0012)>>,
               <<AddrPlus(ProgBase, 4), w>>>>, ProgBase) :
        w \in { Word(\hE280, \h0001), Word(\hE280, \h1001) } }
    \cup { Vector(SVCMode, NoFlags, <<Zero32, Zero32, Zero32>>, <<>>, <<>>,
                  RomBase) }

\* B and BL at 0x03000100 with MOV R4,#n markers on the words around the
\* architectural targets.
BranchOffsets == { 2, 0, 16777214 }

BranchVectors ==
    { Vector(SVCMode, <<FALSE, z, FALSE, FALSE>>,
             <<Zero32, Zero32, Zero32>>, <<>>,
             <<<<ProgAt100, EncBranch(cond, link, off)>>,
               <<AddrPlus(ProgAt100, 4), Word(\hE3A0, \h4004)>>,
               <<AddrPlus(ProgAt100, 8), Word(\hE3A0, \h4008)>>,
               <<AddrPlus(ProgAt100, 16), Word(\hE3A0, \h4010)>>,
               <<AddrPlus(ProgAt100, 24), Word(\hE3A0, \h4018)>>>>,
             ProgAt100) :
        z \in BOOLEAN, cond \in {AL, EQ, NE}, link \in 0..1,
        off \in BranchOffsets }

\* LDMIA R13!,{list} with R13 = 0x03007F00 over the words 0x11, 0x22,
\* 0x03000100, 0x44; the lists are R0-R3, {R0,R2}, {R0}, {R0,R15} and
\* {R0,R1,R15}.
BlockLists == { 15, 5, 1, 32769, 32771 }

BlockVectors ==
    { Vector(mode, NoFlags, <<Zero32, Zero32, Zero32>>,
             <<<<13, StackTop>>>>,
             <<<<ProgBase, EncBlock(AL, 0, 1, 0, 1, 1, 13, list)>>,
               <<StackTop, Word(0, \h11)>>,
               <<AddrPlus(StackTop, 4), Word(0, \h22)>>,
               <<AddrPlus(StackTop, 8), ProgAt100>>,
               <<AddrPlus(StackTop, 12), Word(0, \h44)>>>>,
             ProgBase) :
        mode \in {SVCMode, USRMode}, list \in BlockLists }

\* SWIEQ 0x42, SWI 0x42, MSR CPSR_fc,R0, MSR CPSR_c,#0, MRS R1,CPSR, BX R0,
\* MUL R1,R0,R2, an undefined word and a coprocessor word.
OtherWords ==
    { Word(\h0F00, \h0042), Word(\hEF00, \h0042), Word(\hE129, \hF000),
      Word(\hE321, \hF000), Word(\hE10F, \h1000), Word(\hE12F, \hFF10),
      Word(\hE001, \h0290), Word(\hE7F0, \h00F0), Word(\hEE00, \h0010) }

OtherVectors ==
    { Vector(mode, <<FALSE, z, FALSE, FALSE>>,
             <<Word(0, 5), Word(0, 7), Word(\hFFFF, \hFFFF)>>, <<>>,
             <<<<ProgBase, w>>>>, ProgBase) :
        mode \in {SVCMode, USRMode, IRQMode}, z \in BOOLEAN, w \in OtherWords }

\* LDR R15,[R1] and LDR R15,[R1],#0 with R1 pointing at the word 0x03000100,
\* and markers on the words from 0x03000100.
LoadPCVectors ==
    { Vector(SVCMode, NoFlags, <<Zero32, StackTop, Zero32>>, <<>>,
             <<<<ProgBase, w>>, <<StackTop, ProgAt100>>,
               <<ProgAt100, Word(\hE3A0, \h4000)>>,
               <<AddrPlus(ProgAt100, 4), Word(\hE3A0, \h4004)>>,
               <<AddrPlus(ProgAt100, 8), Word(\hE3A0, \h4008)>>>>,
             ProgBase) :
        w \in { Word(\hE591, \hF000), Word(\hE491, \hF000) } }

\* Instruction bodies (bits 27:0) of each family: ADD R0,R0,#1,
\* LDR R15,[R1], STR R0,[R1], LDMIA R13!,{R0,R1}, BX R0, BL .+16, SWI 0x42
\* and a coprocessor word.
FamilyBodies ==
    { <<\h0280, \h0001>>, <<\h0591, \hF000>>, <<\h0581, 0>>,
      <<\h08BD, \h0003>>, <<\h012F, \hFF10>>, <<\h0B00, \h0002>>,
      <<\h0F00, \h0042>>, <<\h0E00, \h0010>> }

\* Each body under the conditions EQ, NE, LT and NV, with the flags all
\* clear and with N and Z set.
ConditionVectors ==
    { Vector(SVCMode, nzcv, <<Word(0, 5), StackTop, Zero32>>,
             <<<<13, StackTop>>>>,
             <<<<ProgBase, Word(cond * 4096 + body[1], body[2])>>,
               <<StackTop, ProgAt100>>>>,
             ProgBase) :
        nzcv \in {NoFlags, <<TRUE, TRUE, FALSE, FALSE>>},
        cond \in {EQ, NE, LT, NV}, body \in FamilyBodies }

\* BX R0 with R0 = 0x08000201 and R0 = 0x03000102.
ExchangeVectors ==
    { Vector(SVCMode, NoFlags, <<r0, Zero32, Zero32>>, <<>>,
             <<<<ProgBase, Word(\hE12F, \hFF10)>>>>, ProgBase) :
        r0 \in { Word(\h0800, \h0201), Word(\h0300, \h0102) } }

\* LDR R15,[R1] and LDRB R15,[R1] over the words 0x03000101 and 0x03000102.
LoadPCStateVectors ==
    { Vector(SVCMode, NoFlags, <<Zero32, StackTop, Zero32>>, <<>>,
             <<<<ProgBase, w>>, <<StackTop, v>>>>, ProgBase) :
        w \in { Word(\hE591, \hF000), Word(\hE5D1, \hF000) },
        v \in { Word(\h0300, \h0101), Word(\h0300, \h0102) } }

\* R15 as a source at 0x03000100: MOV R0,R15 (Rm), SUB R0,R15,#0 (Rn),
\* LDR R0,[R15] and STR R0,[R15] (base).
PcReadVectors ==
    { Vector(SVCMode, NoFlags, <<Word(0, 5), Zero32, Zero32>>, <<>>,
             <<<<ProgAt100, w>>,
               <<AddrPlus(ProgAt100, 4), Word(\hE3A0, \h4004)>>,
               <<AddrPlus(ProgAt100, 8), Word(\hE3A0, \h4008)>>>>,
             ProgAt100) :
        w \in { Word(\hE1A0, \h000F), Word(\hE24F, 0), Word(\hE59F, 0),
                Word(\hE58F, 0) } }

\* MOV R0,#0x12 at 0x03000000 with the I bit cleared beforehand.
IrqVectors ==
    { [Vector(mode, NoFlags, <<Zero32, Zero32, Zero32>>, <<>>,
              <<<<ProgBase, Word(\hE3A0, \h0012)>>>>, ProgBase)
          EXCEPT !.irqOn = TRUE] : mode \in {SVCMode, USRMode} }

\* STMIA R13!,{R0,R15}, STMIA R13,{R15}, STMDB R13!,{R0,R15} and
\* LDMIA R13!,{} with R13 = 0x03007F00.
BlockEdgeVectors ==
    { Vector(SVCMode, NoFlags, <<Word(0, 5), Zero32, Zero32>>,
             <<<<13, StackTop>>>>,
             <<<<ProgBase, w>>, <<StackTop, Word(0, \h11)>>>>, ProgBase) :
        w \in { Word(\hE8AD, \h8001), Word(\hE88D, \h8000),
                Word(\hE92D, \h8001), Word(\hE8BD, 0) } }

\* MOVS R1,R0,LSR #0, MOVS R1,R0,ASR #0, MOVS and MOV R1,R0,ROR #0 (RRX),
\* MVNS R1,R0,ROR #0 and MOVS R1,R0,LSL R2.
ShiftZeroVectors ==
    { Vector(SVCMode, <<FALSE, FALSE, c, FALSE>>, rv, <<>>,
             <<<<ProgBase, w>>>>, ProgBase) :
        c \in BOOLEAN, rv \in RegValues,
        w \in { Word(\hE1B0, \h1020), Word(\hE1B0, \h1040),
                Word(\hE1B0, \h1060), Word(\hE1A0, \h1060),
                Word(\hE1F0, \h1060), Word(\hE1B0, \h1210) } }

\* MSR CPSR_f,R0, MSR SPSR_f,R0, MSR CPSR_f,#0xF0000000 and MSR
\* SPSR_fsx,R0 with R0 = 0xF0FF1200, and MUL R1,R0,R2 and MLA R1,R0,R2,R1
\* with R0 = 0xF0FF1200, R1 = 7 and R2 = 3.
StatusVectors ==
    { Vector(mode, NoFlags, <<Word(\hF0FF, \h1200), Word(0, 7), Word(0, 3)>>,
             <<>>, <<<<ProgBase, w>>>>, ProgBase) :
        mode \in {SVCMode, IRQMode},
        w \in { Word(\hE128, \hF000), Word(\hE168, \hF000),
                Word(\hE328, \hF20F), Word(\hE16E, \hF000),
                Word(\hE001, \h0290), Word(\hE021, \h1290) } }

\* Marker words on the five words around 0x03007F00.
StackMarkers ==
    << <<AddrPlus(StackTop, 4), Word(0, \h55)>>, <<StackTop, Word(0, \h44)>>,
       <<Sub32(StackTop, U32(4)), Word(0, \h33)>>,
       <<Sub32(StackTop, U32(8)), Word(0, \h22)>>,
       <<AddrPlus(StackTop, 8), Word(0, \h66)>> >>

\* LDM and STM of {R0,R1} with base R13 = 0x03007F00 and write-back, in
\* the four P/U combinations.
BlockOrderVectors ==
    { Vector(SVCMode, NoFlags, <<Word(0, 5), Word(0, 7), Zero32>>,
             <<<<13, StackTop>>>>,
             <<<<ProgBase, EncBlock(AL, pre, up, 0, 1, load, 13, 3)>>>>
                 \o StackMarkers,
             ProgBase) :
        pre \in 0..1, up \in 0..1, load \in 0..1 }

\* LDR and STR of R0 with base R1 = 0x03007F00 and the immediate offset 4,
\* in every P/U/W combination.
SingleTransferVectors ==
    { Vector(SVCMode, NoFlags, <<Word(0, 5), StackTop, Zero32>>, <<>>,
             <<<<ProgBase,
                 EncLoadStore(AL, pre, up, 0, wback, load, 1, 0, 4)>>>>
                 \o StackMarkers,
             ProgBase) :
        pre \in 0..1, up \in 0..1, wback \in 0..1, load \in 0..1 }

Vectors ==
    DataProcVectors \cup ProgramVectors \cup BranchVectors \cup BlockVectors
        \cup LoadPCVectors \cup OtherVectors \cup ConditionVectors
        \cup ExchangeVectors \cup LoadPCStateVectors \cup PcReadVectors
        \cup IrqVectors \cup BlockEdgeVectors \cup ShiftZeroVectors
        \cup StatusVectors \cup BlockOrderVectors \cup SingleTransferVectors

----------------------------------------------------------------------------
(* Actions                                                                 *)

Machine == [regs |-> regs, bus |-> bus, pipeline |-> pipeline,
            panicked |-> panicked]

\* The record of an operation: its name and inputs, the state it started
\* from, and the same for the operation before it.
Did(op, arg) ==
    last' = [op |-> op, arg |-> arg, regs |-> regs, bus |-> bus,
             prev |-> [op |-> last.op, regs |-> last.regs, bus |-> last.bus]]

\* main(): NewBus, NewCPU, cpu.Reset().
Init ==
    /\ \E biosData \in BiosImages, romData \in RomImages :
          bus = NewBus(biosData, romData)
    /\ regs = ResetRegisters
    /\ pipeline = <<Zero32, Zero32>>
    /\ cycles = 0
    /\ panicked = FALSE
    /\ calls = 0
    /\ last = [op |-> "NewCPU", arg |-> <<>>, regs |-> NewRegisters,
               bus |-> NewBus(<<>>, <<>>),
               prev |-> [op |-> "none", regs |-> NewRegisters,
                         bus |-> NewBus(<<>>, <<>>)]]

RECURSIVE SetRegs(_, _)
SetRegs(r, pairs) ==
    IF pairs = <<>> THEN r
    ELSE SetRegs(SetReg(r, pairs[1][1], pairs[1][2]), Tail(pairs))

RECURSIVE WriteWords(_, _)
WriteWords(b, pairs) ==
    IF pairs = <<>> THEN b
    ELSE WriteWords(Write32(b, pairs[1][1], pairs[1][2]), Tail(pairs))

\* The driver's set-up of a test vector through the public calls SetMode,
\* SetFlagN..V, SetIRQDisabled, SetReg and Bus.Write32.
Arranged(r, vec) ==
    LET moded == SetMode(r, vec.mode)
        flagged == SetFlagV(SetFlagC(SetFlagZ(SetFlagN(moded, vec.nzcv[1]),
                       vec.nzcv[2]), vec.nzcv[3]), vec.nzcv[4])
        low == SetRegs(flagged, <<<<0, vec.r012[1]>>, <<1, vec.r012[2]>>,
                                  <<2, vec.r012[3]>>>>)
        ready == SetIRQDisabled(low, ~vec.irqOn)
    IN  SetReg(SetRegs(ready, vec.more), 15, vec.pc)

Arrange ==
    /\ last.op = "NewCPU"
    /\ \E vec \in Vectors :
          /\ regs' = Arranged(regs, vec)
          /\ bus' = WriteWords(bus, vec.mem)
          /\ Did("Arrange", vec)
    /\ UNCHANGED <<pipeline, cycles, panicked, calls>>

\* The CPU after a step that left the machine m: cycles++ is the last
\* statement of CPU.Step, so a panicking step does not count.
Stepped(m) ==
    /\ regs' = m.regs
    /\ bus' = m.bus
    /\ pipeline' = m.pipeline
    /\ panicked' = m.panicked
    /\ cycles' = IF m.panicked THEN cycles ELSE cycles + 1

\* CPU.Step.  The interrupt line is an input the collaborators hold while
\* the step runs; Step has its checkInterrupts call commented out and does
\* not sample it.
Step ==
    /\ ~panicked
    /\ cycles < MaxSteps
    /\ Stepped(StepMachine(Machine))
    /\ \E irqLine \in BOOLEAN : Did("Step", <<irqLine>>)
    /\ UNCHANGED calls

\* CPU.Reset
Reset ==
    /\ ~panicked
    /\ calls < MaxResets
    /\ regs' = ResetRegisters
    /\ calls' = calls + 1
    /\ Did("Reset", <<>>)
    /\ UNCHANGED <<bus, pipeline, cycles, panicked>>

\* main's loop after cpu.Step(): bus.Tick(1), then the frame flag is
\* cleared if the tick raised it.
MainTick ==
    /\ ~panicked
    /\ last.op = "Step"
    /\ \E nilTickPanics \in BOOLEAN :
          LET ticked == Tick(bus, 1, nilTickPanics)
          IN  /\ bus' = IF ticked.panicked THEN ticked.bus
                        ELSE [ticked.bus EXCEPT !.frameReady = FALSE]
              /\ panicked' = ticked.panicked
              /\ Did("Tick", <<1, nilTickPanics>>)
    /\ UNCHANGED <<regs, pipeline, cycles, calls>>

\* main's loop starts each iteration with cpu.Step(): the first statement
\* after the set-up and the one that follows every bus.Tick(1).
MainStep ==
    /\ last.op \in {"NewCPU", "Tick"}
    /\ Step

\* main's loop: cpu.Step(), bus.Tick(1) and the frame check, in that order,
\* until a panic ends the process.
Next == MainStep \/ MainTick

Spec == Init /\ [][Next]_vars

----------------------------------------------------------------------------
(* The CPU driven through its own calls                                    *)

\* A driver that loads a register file and memory through the public
\* setters, steps the CPU, may tick the bus after a step as main does, and
\* may call Reset.
NextCPU == Arrange \/ Step \/ MainTick \/ Reset

SpecCPU == Init /\ [][NextCPU]_vars

----------------------------------------------------------------------------
(* The register file driven through its own calls                          *)

\* One register of each kind: shared, FIQ-banked, R13, R14 and the PC.
ApiRegNums == {0, 8, 13, 14, 15}

ApiValues == { Word(\hDEAD, \hBEEF), Word(0, \h1234) }

DoSetReg ==
    /\ ~panicked
    /\ calls < MaxCalls
    /\ \E regNum \in ApiRegNums, value \in ApiValues :
          /\ regs' = SetReg(regs, regNum, value)
          /\ Did("SetReg", <<regNum, value>>)
    /\ calls' = calls + 1
    /\ UNCHANGED <<bus, pipeline, cycles, panicked>>

DoSetMode ==
    /\ ~panicked
    /\ calls < MaxCalls
    /\ \E mode \in ValidModes :
          /\ regs' = SetMode(regs, mode)
          /\ Did("SetMode", <<mode>>)
    /\ calls' = calls + 1
    /\ UNCHANGED <<bus, pipeline, cycles, panicked>>

DoSetSPSR ==
    /\ ~panicked
    /\ calls < MaxCalls
    /\ \E value \in ApiValues :
          /\ regs' = SetSPSR(regs, value)
          /\ Did("SetSPSR", <<value>>)
    /\ calls' = calls + 1
    /\ UNCHANGED <<bus, pipeline, cycles, panicked>>

NextRegs == DoSetReg \/ DoSetMode \/ DoSetSPSR \/ Reset

SpecRegs == Init /\ [][NextRegs]_vars

----------------------------------------------------------------------------
(* The bus driven through its own calls                                    *)

MaxBusCalls == 2

\* Addresses of every case of the routing switches: the first and last byte
\* of each base range, mirrors of them, the wait-state aliases of the
\* cartridge window and addresses outside every region.
BiosAddrs == { Zero32, Word(0, \h3FFF) }
OpenAddrs == { Word(0, \h4000), Word(\h01FF, \hFFFF), Word(\h0E01, 0),
               Word(\h1000, 0), Word(\hFFFF, \hFFFF) }
EWRAMBaseAddrs == { Word(\h0200, 0), Word(\h0203, \hFFFF) }
EWRAMMirrorAddrs == { Word(\h0204, 0), Word(\h02FF, \hFFFF) }
IWRAMBaseAddrs == { Word(\h0300, 0), Word(\h0300, \h7FFF) }
IWRAMMirrorAddrs == { Word(\h0300, \h8000), Word(\h03FF, \hFFFF) }
IOAddrs == { Word(\h0400, 0), Word(\h0400, 6), Word(\h0400, \h005F),
             Word(\h0400, \h0060), Word(\h0400, \h03FE),
             Word(\h0400, \h03FF) }
PALRAMBaseAddrs == { Word(\h0500, 0) }
PALRAMMirrorAddrs == { Word(\h0500, \h0400) }
VRAMBaseAddrs == { Word(\h0600, 0) }
OAMBaseAddrs == { Word(\h0700, 0) }
OAMMirrorAddrs == { Word(\h0700, \h0400) }
RomAddrs == { Word(\h0800, 0), Word(\h0800, 7), Word(\h0A00, 0),
              Word(\h0C00, 0), Word(\h0DFF, \hFFFF) }
SRAMAddrs == { Word(\h0E00, 0), Word(\h0E00, \h7FFF), Word(\h0E00, \h8000),
               Word(\h0E00, \hFFFF) }

BusAddrs ==
    BiosAddrs \cup OpenAddrs \cup EWRAMBaseAddrs \cup EWRAMMirrorAddrs
    \cup IWRAMBaseAddrs \cup IWRAMMirrorAddrs \cup IOAddrs
    \cup PALRAMBaseAddrs \cup PALRAMMirrorAddrs \cup VRAMBaseAddrs
    \cup OAMBaseAddrs \cup OAMMirrorAddrs \cup RomAddrs \cup SRAMAddrs

\* Halfword and word accesses: inside one region, and across the end of the
\* boot ROM, of the cartridge window and of the unmapped area below EWRAM.
WideAddrs ==
    { Zero32, Word(0, \h3FFF), Word(0, \h4000), Word(\h01FF, \hFFFF),
      Word(\h0200, 0), Word(\h0300, \h7FFC), Word(\h0800, 0),
      Word(\h0DFF, \hFFFF) }

WordAddrs ==
    { Zero32, Word(0, 4), Word(\h0200, 0), Word(\h0300, \h7FFC),
      Word(\h0400, \h0060), Word(\h0500, 0), Word(\h0600, 0),
      Word(\h0700, 0), Word(\h0800, 0), Word(\h0E00, 0) }

ByteValues == { 171, 1 }
HalfValues == { \hBEEF }
WordValues == { Word(\hDEAD, \hBEEF) }

\* The result of a read call: <<value>>, or <<>> when the call panics.
\* Bus.Read8
BusRead8 ==
    /\ ~panicked
    /\ calls < MaxBusCalls
    /\ \E addr \in BusAddrs :
          /\ panicked' = Read8Panics(bus, addr)
          /\ Did("Read8", <<addr, IF Read8Panics(bus, addr) THEN <<>>
                                  ELSE <<Read8(bus, addr)>> >>)
    /\ calls' = calls + 1
    /\ UNCHANGED <<regs, bus, pipeline, cycles>>

\* Bus.Read32
BusRead32 ==
    /\ ~panicked
    /\ calls < MaxBusCalls
    /\ \E addr \in WordAddrs :
          /\ panicked' = Read32Panics(bus, addr)
          /\ Did("Read32", <<addr, IF Read32Panics(bus, addr) THEN <<>>
                                   ELSE <<Read32(bus, addr)>> >>)
    /\ calls' = calls + 1
    /\ UNCHANGED <<regs, bus, pipeline, cycles>>

\* Bus.Write8
BusWrite8 ==
    /\ ~panicked
    /\ calls < MaxBusCalls
    /\ \E addr \in BusAddrs, value \in ByteValues :
          /\ bus' = Write8(bus, addr, value)
          /\ panicked' = Write8Panics(bus, addr)
          /\ Did("Write8", <<addr, value>>)
    /\ calls' = calls + 1
    /\ UNCHANGED <<regs, pipeline, cycles>>

\* Bus.Write16
BusWrite16 ==
    /\ ~panicked
    /\ calls < MaxBusCalls
    /\ \E addr \in WideAddrs, value \in HalfValues :
          /\ bus' = Write16(bus, addr, value)
          /\ panicked' = Write16Panics(bus, addr)
          /\ Did("Write16", <<addr, value>>)
    /\ calls' = calls + 1
    /\ UNCHANGED <<regs, pipeline, cycles>>

\* Bus.Write32
BusWrite32 ==
    /\ ~panicked
    /\ calls < MaxBusCalls
    /\ \E addr \in WideAddrs, value \in WordValues :
          /\ bus' = Write32(bus, addr, value)
          /\ panicked' = Write32Panics(bus, addr)
          /\ Did("Write32", <<addr, value>>)
    /\ calls' = calls + 1
    /\ UNCHANGED <<regs, pipeline, cycles>>

\* Tick lengths: less than a scanline, one scanline, and the 160 scanlines
\* up to the vertical blank.
TickCycles == { 1, 1232, 197120 }

\* Bus.Tick
BusTick ==
    /\ ~panicked
    /\ calls < MaxBusCalls
    /\ \E n \in TickCycles, nilTickPanics \in BOOLEAN :
          LET ticked == Tick(bus, n, nilTickPanics)
          IN  /\ bus' = ticked.bus
              /\ panicked' = ticked.panicked
              /\ Did("Tick", <<n, nilTickPanics>>)
    /\ calls' = calls + 1
    /\ UNCHANGED <<regs, pipeline, cycles>>

\* PPU.ResetFrameReady
ResetFrameReady ==
    /\ ~panicked
    /\ calls < MaxBusCalls
    /\ bus' = [bus EXCEPT !.frameReady = FALSE]
    /\ Did("ResetFrameReady", <<>>)
    /\ calls' = calls + 1
    /\ UNCHANGED <<regs, pipeline, cycles, panicked>>

\* The display-control offsets and one offset WriteIORegister8 ignores.
DisplayOffsets == { 0, 1, 6 }

\* PPU.WriteIORegister8
PPUWriteIORegister8 ==
    /\ ~panicked
    /\ calls < MaxBusCalls
    /\ \E off \in DisplayOffsets, value \in ByteValues :
          /\ bus' = WriteIORegister8(bus, off, value)
          /\ Did("WriteIORegister8", <<off, value>>)
    /\ calls' = calls + 1
    /\ UNCHANGED <<regs, pipeline, cycles, panicked>>

\* Indexes inside the cartridge image, one past its end, and a bus address.
RomIndexes == { Zero32, Word(0, 7), Word(0, 8), Word(\h0800, 0) }

\* Cartridge.WriteROM8
CartWriteROM8 ==
    /\ ~panicked
    /\ calls < MaxBusCalls
    /\ \E addr \in RomIndexes, value \in ByteValues :
          /\ bus' = WriteROM8(bus, addr, value)
          /\ panicked' = WriteROM8Panics(bus, addr)
          /\ Did("WriteROM8", <<addr, value>>)
    /\ calls' = calls + 1
    /\ UNCHANGED <<regs, pipeline, cycles>>

NextBus ==
    \/ BusRead8 \/ BusRead32 \/ BusWrite8 \/ BusWrite16 \/ BusWrite32
    \/ BusTick \/ ResetFrameReady \/ PPUWriteIORegister8 \/ CartWriteROM8

SpecBus == Init /\ [][NextBus]_vars

----------------------------------------------------------------------------
(* Properties                                                              *)

BankFields ==
    {"SP_usr", "LR_usr", "SP_svc", "LR_svc", "SP_abt", "LR_abt", "SP_und",
     "LR_und", "SP_irq", "LR_irq", "R8_fiq", "R9_fiq", "R10_fiq", "R11_fiq",
     "R12_fiq", "SP_fiq", "LR_fiq"}

SPSRFields == {"SPSR_svc", "SPSR_abt", "SPSR_und", "SPSR_irq", "SPSR_fiq"}

\* C1: after Reset, whatever the state before it, the register file is in
\* supervisor mode (CPSR[4:0] = 0b10011) with I=1, F=1, T=0, N=Z=C=V=0,
\* PC = 0, and R0-R12, the FIQ bank, every banked R13/R14 and every SPSR zero.
ResetState ==
    last.op = "Reset" =>
        /\ Field(regs.CPSR, 0, 5) = 19
        /\ Bit32(regs.CPSR, 7) = 1
        /\ Bit32(regs.CPSR, 6) = 1
        /\ Bit32(regs.CPSR, 5) = 0
        /\ \A n \in 28..31 : Bit32(regs.CPSR, n) = 0
        /\ regs.PC = Zero32
        /\ \A i \in 0..12 : regs.R[i] = Zero32
        /\ \A f \in BankFields \cup SPSRFields : regs[f] = Zero32

\* A Reset taken in user mode with a stack pointer, a PC and loaded registers.
ResetStateWitness ==
    /\ last.op = "Reset"
    /\ GetMode(last.regs) = USRMode
    /\ last.regs.SP_usr # Zero32
    /\ last.regs.PC # Zero32
    /\ last.regs.R[0] # Zero32
    /\ cycles > 0

\* C2: in every state reachable from Reset by Step calls, over any
\* instruction words in memory, CPSR[4:0] is one of the seven valid mode
\* codes 0x10, 0x11, 0x12, 0x13, 0x17, 0x1B, 0x1F.
ModeAlwaysValid ==
    Field(regs.CPSR, 0, 5) \in {16, 17, 18, 19, 23, 27, 31}

\* A Step that changed the mode field (a SWI taken outside supervisor mode).
ModeAlwaysValidWitness ==
    /\ last.op = "Step"
    /\ Field(regs.CPSR, 0, 5) # Field(last.regs.CPSR, 0, 5)

\* The architectural bank a mode selects for register n: R0-R7 and R15 have
\* one bank, R8-R12 a second one for FIQ, R13 and R14 six (user and system
\* share one).
BankOf(mode, n) ==
    IF n <= 7 \/ n = 15 THEN "all"
    ELSE IF mode = 17 THEN "fiq"
    ELSE IF n <= 12 THEN "all"
    ELSE CASE mode \in {16, 31} -> "usr"
           [] mode = 19 -> "svc"
           [] mode = 23 -> "abt"
           [] mode = 27 -> "und"
           [] mode = 18 -> "irq"

SevenModes == {16, 17, 18, 19, 23, 27, 31}

\* C9: a SetReg of register n in mode A changes what GetReg returns for n in
\* mode B only if A and B select the same bank: R13/R14 have the banks
\* {user, system}, supervisor, abort, undefined, IRQ, FIQ; R8-R12 have a
\* FIQ bank apart from all other modes; R0-R7 and R15 are seen in every mode.
RegisterBanking ==
    last.op = "SetReg" =>
        LET n == last.arg[1]
            value == last.arg[2]
            modeA == Field(last.regs.CPSR, 0, 5)
        IN  \A modeB \in SevenModes :
                IF BankOf(modeA, n) = BankOf(modeB, n)
                THEN GetReg(SetMode(regs, modeB), n) = value
                ELSE GetReg(SetMode(regs, modeB), n)
                        = GetReg(SetMode(last.regs, modeB), n)

\* R13 written in IRQ mode while the supervisor R13 holds another non-zero
\* value.
RegisterBankingWitness ==
    /\ last.op = "SetReg"
    /\ last.arg[1] = 13
    /\ Field(last.regs.CPSR, 0, 5) = 18
    /\ GetReg(SetMode(regs, 19), 13) \notin {Zero32, last.arg[2]}

\* C10: set_mode(m), for each valid mode m, changes nothing but CPSR[4:0]:
\* every bank field, every SPSR, PC and CPSR[31:5] keep their values, a
\* register reads back unchanged once the mode returns to where it was
\* written, and set_mode(m) twice equals set_mode(m) once.
SetModeFrame ==
    last.op = "SetMode" =>
        LET mode == last.arg[1]
        IN  /\ Field(regs.CPSR, 0, 5) = mode
            /\ Shr32(regs.CPSR, 5) = Shr32(last.regs.CPSR, 5)
            /\ regs.R = last.regs.R
            /\ regs.PC = last.regs.PC
            /\ \A f \in BankFields \cup SPSRFields : regs[f] = last.regs[f]
            /\ \A n \in 0..15 :
                  GetReg(SetMode(regs, Field(last.regs.CPSR, 0, 5)), n)
                      = GetReg(last.regs, n)
            /\ SetMode(regs, mode) = regs

\* A return from IRQ to supervisor mode that finds the R13 written there.
SetModeFrameWitness ==
    /\ last.op = "SetMode"
    /\ last.arg[1] = 19
    /\ Field(last.regs.CPSR, 0, 5) = 18
    /\ GetReg(regs, 13) # Zero32
    /\ GetReg(last.regs, 13) = Zero32

----------------------------------------------------------------------------
(* The ARM7TDMI reference the instruction properties are stated against    *)

\* The last operation was a Step taken in ARM state from address InstrAddr.
ArmStep == last.op = "Step" /\ Bit32(last.regs.CPSR, 5) = 0

InstrAddr == last.regs.PC

\* The word stored at a word-aligned address of the cartridge image or of
\* readable memory, <<>> where there is none.
WordAt(b, addr) ==
    LET off == Offset(addr, GamePakAddrStartWS0)
    IN  IF addr[1] \div 256 = 8 /\ addr[1] % 256 = 0 /\ off + 4 <= Len(b.ROM)
        THEN <<b.ROM[off + 4] * 256 + b.ROM[off + 3],
               b.ROM[off + 2] * 256 + b.ROM[off + 1]>>
        ELSE IF Read32Panics(b, addr) THEN <<>>
        ELSE Read32(b, addr)

InstrWord == WordAt(last.bus, InstrAddr)

\* What an instruction at InstrAddr reads from register n: R15 reads as the
\* instruction address + 8.
RefReg(n) ==
    IF n = 15 THEN Add32(InstrAddr, U32(8)) ELSE GetReg(last.regs, n)

\* The condition table over the flags of a CPSR value.
CondPasses(cpsr, cond) ==
    LET fN == Bit32(cpsr, 31) = 1
        fZ == Bit32(cpsr, 30) = 1
        fC == Bit32(cpsr, 29) = 1
        fV == Bit32(cpsr, 28) = 1
    IN  CASE cond = 0 -> fZ
          [] cond = 1 -> ~fZ
          [] cond = 2 -> fC
          [] cond = 3 -> ~fC
          [] cond = 4 -> fN
          [] cond = 5 -> ~fN
          [] cond = 6 -> fV
          [] cond = 7 -> ~fV
          [] cond = 8 -> fC /\ ~fZ
          [] cond = 9 -> ~fC \/ fZ
          [] cond = 10 -> fN = fV
          [] cond = 11 -> fN # fV
          [] cond = 12 -> ~fZ /\ fN = fV
          [] cond = 13 -> fZ \/ fN # fV
          [] cond = 14 -> TRUE
          [] OTHER -> FALSE

RefRor(a, n) == IF n % 32 = 0 THEN a
                ELSE Or32(Shr32(a, n % 32), Shl32(a, 32 - (n % 32)))

RefAsr(a, n) ==
    IF Bit32(a, 31) = 0 THEN Shr32(a, n)
    ELSE IF n >= 32 THEN <<Half - 1, Half - 1>>
    ELSE Or32(Shr32(a, n), Not32(Shr32(<<Half - 1, Half - 1>>, n)))

\* The barrel shifter on a value by an amount 0..255, with the carry-in, as
\* <<result, carry-out>>; amount 0 leaves value and carry alone.
RefShift(value, type, amount, carryIn) ==
    IF amount = 0 THEN <<value, carryIn>>
    ELSE CASE type = 0 ->
                <<Shl32(value, amount),
                  IF amount <= 32 THEN Bit32(value, 32 - amount) ELSE 0>>
           [] type = 1 ->
                <<Shr32(value, amount),
                  IF amount <= 32 THEN Bit32(value, amount - 1) ELSE 0>>
           [] type = 2 ->
                <<RefAsr(value, amount),
                  IF amount <= 32 THEN Bit32(value, amount - 1)
                  ELSE Bit32(value, 31)>>
           [] OTHER ->
                <<RefRor(value, amount), Bit32(value, (amount - 1) % 32)>>

\* Operand 2 of the data-processing word w as <<value, shifter carry-out>>.
RefOperand2(w) ==
    LET carryIn == Bit32(last.regs.CPSR, 29)
        type == Field(w, 5, 2)
        rm == Field(w, 0, 4)
        imm5 == Field(w, 7, 5)
    IN  IF Bit32(w, 25) = 1
        THEN LET rot == 2 * Field(w, 8, 4)
                 value == RefRor(<<0, Field(w, 0, 8)>>, rot)
             IN  <<value, IF rot = 0 THEN carryIn ELSE Bit32(value, 31)>>
        ELSE IF Bit32(w, 4) = 1
        THEN LET rmValue == IF rm = 15 THEN Add32(InstrAddr, U32(12))
                            ELSE RefReg(rm)
             IN  RefShift(rmValue, type, Field(RefReg(Field(w, 8, 4)), 0, 8),
                          carryIn)
        ELSE IF imm5 # 0 THEN RefShift(RefReg(rm), type, imm5, carryIn)
        ELSE CASE type = 0 -> <<RefReg(rm), carryIn>>
               [] type = 1 -> <<Zero32, Bit32(RefReg(rm), 31)>>
               [] type = 2 -> <<RefAsr(RefReg(rm), 32), Bit32(RefReg(rm), 31)>>
               [] OTHER ->
                    <<Or32(Shr32(RefReg(rm), 1), Shl32(<<0, carryIn>>, 31)),
                      Bit32(RefReg(rm), 0)>>

\* a + b + c in 33 bits: the 32-bit sum, the carry out of bit 31 and the
\* signed overflow.
RefAdd(a, b, c) ==
    LET lo == a[2] + b[2] + c
        hi == a[1] + b[1] + (lo \div Half)
        sum == <<hi % Half, lo % Half>>
    IN  [result |-> sum, carry |-> hi \div Half,
         overflow |-> IF Bit32(a, 31) = Bit32(b, 31)
                         /\ Bit32(sum, 31) # Bit32(a, 31) THEN 1 ELSE 0]

\* The ALU for opcode op on Rn's value a and operand 2 <<b, shifter carry>>:
\* the result and the flags N, Z, C, V an S=1 instruction leaves.
RefAlu(op, a, operand2) ==
    LET b == operand2[1]
        cIn == Bit32(last.regs.CPSR, 29)
        vIn == Bit32(last.regs.CPSR, 28)
        logical(x) == [result |-> x, carry |-> operand2[2], overflow |-> vIn]
        out == CASE op \in {0, 8} -> logical(And32(a, b))
                 [] op \in {1, 9} -> logical(Xor32(a, b))
                 [] op \in {2, 10} -> RefAdd(a, Not32(b), 1)
                 [] op = 3 -> RefAdd(b, Not32(a), 1)
                 [] op \in {4, 11} -> RefAdd(a, b, 0)
                 [] op = 5 -> RefAdd(a, b, cIn)
                 [] op = 6 -> RefAdd(a, Not32(b), cIn)
                 [] op = 7 -> RefAdd(b, Not32(a), cIn)
                 [] op = 12 -> logical(Or32(a, b))
                 [] op = 13 -> logical(b)
                 [] op = 14 -> logical(And32(a, Not32(b)))
                 [] OTHER -> logical(Not32(b))
    IN  [result |-> out.result,
         nzcv |-> <<Bit32(out.result, 31),
                    IF out.result = Zero32 THEN 1 ELSE 0,
                    out.carry, out.overflow>>]

\* Bits 27:26 = 00 without the multiply / halfword-transfer pattern and
\* without the PSR-transfer and BX space (test opcodes with S=0).
IsDataProc(w) ==
    /\ w # <<>>
    /\ Field(w, 26, 2) = 0
    /\ ~(Bit32(w, 25) = 0 /\ Bit32(w, 7) = 1 /\ Bit32(w, 4) = 1)
    /\ ~(Field(w, 21, 4) \in 8..11 /\ Bit32(w, 20) = 0)

DataProcResult(w) ==
    RefAlu(Field(w, 21, 4),
           IF Bit32(w, 25) = 0 /\ Bit32(w, 4) = 1 /\ Field(w, 16, 4) = 15
           THEN Add32(InstrAddr, U32(12)) ELSE RefReg(Field(w, 16, 4)),
           RefOperand2(w))

\* The condition cond over the flags before the instruction.
RefCond(cond) == CondPasses(last.regs.CPSR, cond)

FlagsOf(r) ==
    <<Bit32(r.CPSR, 31), Bit32(r.CPSR, 30), Bit32(r.CPSR, 29), Bit32(r.CPSR, 28)>>

----------------------------------------------------------------------------
(* Instruction properties                                                  *)

\* C3: a data-processing instruction with a writing opcode (AND, EOR, SUB,
\* RSB, ADD, ADC, SBC, RSC, ORR, MOV, BIC, MVN), S=0, Rd # R15 and a passing
\* condition writes its result to Rd and to no other general-purpose
\* register, leaves N, Z, C, V unchanged and leaves PC at the instruction
\* address + 4 (MOV R0,#0x12 at 0x08000000 then ADD R0,R0,#1 gives R0 = 0x13
\* and PC = 0x08000008).
DataProcWritesRd ==
    LET w == InstrWord
        rd == Field(w, 12, 4)
    IN  ( /\ ArmStep
          /\ IsDataProc(w)
          /\ Field(w, 21, 4) \notin 8..11
          /\ Bit32(w, 20) = 0
          /\ rd # 15
          /\ RefCond(Field(w, 28, 4)) )
        => /\ ~panicked
           /\ GetReg(regs, rd) = DataProcResult(w).result
           /\ \A n \in (0..14) \ {rd} : GetReg(regs, n) = GetReg(last.regs, n)
           /\ FlagsOf(regs) = FlagsOf(last.regs)
           /\ regs.PC = Add32(InstrAddr, U32(4))

\* The sign extension of the 24-bit field f shifted left by two.
BranchDisplacement(f) ==
    IF f >= 2 ^ 23 THEN <<(Half - 1024) + (f \div 2 ^ 14), (4 * f) % Half>>
    ELSE <<f \div 2 ^ 14, (4 * f) % Half>>

BranchTargetFrom(addr, w) ==
    Add32(Add32(addr, U32(8)),
          BranchDisplacement(Field(w, 16, 8) * Half + w[2]))

BranchTarget(w) == BranchTargetFrom(InstrAddr, w)

IsBranch(w) == w # <<>> /\ Field(w, 25, 3) = 5

\* C4: a B or BL at address A with offset field f is taken exactly when its
\* condition field passes on N/Z/C/V; taken, it sets PC to
\* A + 8 + sign_extend(f << 2) and BL sets R14 of the current mode to A + 4
\* (BL at 0x08000100 with f = 2 leaves R14 = 0x08000104, PC = 0x08000110).
BranchContract ==
    LET w == InstrWord
    IN  (ArmStep /\ IsBranch(w))
        => /\ ~panicked
           /\ IF RefCond(Field(w, 28, 4))
              THEN /\ regs.PC = BranchTarget(w)
                   /\ Bit32(w, 24) = 1
                        => GetReg(regs, 14) = Add32(InstrAddr, U32(4))
              ELSE /\ regs.PC = Add32(InstrAddr, U32(4))
                   /\ GetReg(regs, 14) = GetReg(last.regs, 14)

InRegList(w, i) == (w[2] \div 2 ^ i) % 2 = 1

\* How many registers below i the list of the block-transfer word w holds.
RankInList(w, i) == Cardinality({j \in 0..15 : j < i /\ InRegList(w, j)})

IsLoadMultiple(w) == w # <<>> /\ Field(w, 25, 3) = 4 /\ Bit32(w, 20) = 1

\* The lowest address an LDM/STM with n registers transfers at, from the
\* base and the P and U bits.
BlockStart(w, base, n) ==
    IF Bit32(w, 23) = 1
    THEN IF Bit32(w, 24) = 1 THEN Add32(base, U32(4)) ELSE base
    ELSE IF Bit32(w, 24) = 1 THEN Sub32(base, U32(4 * n))
         ELSE Sub32(base, U32(4 * n - 4))

IsLoadWordToPC(w) ==
    /\ w # <<>>
    /\ Field(w, 26, 2) = 1
    /\ Bit32(w, 25) = 0
    /\ Bit32(w, 22) = 0
    /\ Bit32(w, 20) = 1
    /\ Field(w, 12, 4) = 15

WordAligned(a) == <<a[1], a[2] - (a[2] % 4)>>

\* The address T that the instruction at the PC of register file r sets
\* the PC to when it is a taken B/BL, an LDM with R15 in its list or an LDR
\* of R15 with an immediate offset; <<>> for any other instruction.
FlushTarget(r, b) ==
    LET a == r.PC
        w == WordAt(b, a)
        rn == Field(w, 16, 4)
        base == IF rn = 15 THEN Add32(a, U32(8)) ELSE GetReg(r, rn)
        n == RankInList(w, 16)
        offset == <<0, Field(w, 0, 12)>>
        indexed == IF Bit32(w, 23) = 1 THEN Add32(base, offset)
                   ELSE Sub32(base, offset)
    IN  IF Bit32(r.CPSR, 5) = 1 \/ w = <<>> THEN <<>>
        ELSE IF ~CondPasses(r.CPSR, Field(w, 28, 4)) THEN <<>>
        ELSE IF IsBranch(w) THEN BranchTargetFrom(a, w)
        ELSE IF IsLoadMultiple(w) /\ InRegList(w, 15)
        THEN WordAligned(WordAt(b, Add32(BlockStart(w, base, n),
                                         U32(4 * (n - 1)))))
        ELSE IF IsLoadWordToPC(w)
        THEN WordAligned(WordAt(b, IF Bit32(w, 24) = 1 THEN indexed ELSE base))
        ELSE <<>>

\* C5: after a taken branch, a load into R15 or another pipeline flush that
\* sets PC to a target T, the next Step fetches and executes the instruction
\* stored at T, not the one at T+4 or T+8.
FlushThenFetchAtTarget ==
    ( /\ last.op = "Step"
      /\ last.prev.op = "Step"
      /\ FlushTarget(last.prev.regs, last.prev.bus) # <<>> )
    => last.regs.PC = FlushTarget(last.prev.regs, last.prev.bus)

\* C6: for ADD, ADC and CMN with S=1 and Rd # R15, C is the unsigned
\* carry-out of the 32-bit addition and V the signed overflow of the two
\* operand values before the instruction, as a wider reference computes
\* them; ADDS R0,R0,R0 with R0 = 0x80000000 yields R0=0, N=0, Z=1, C=1, V=1.
AddFlags ==
    LET w == InstrWord
    IN  /\ ( /\ ArmStep
             /\ IsDataProc(w)
             /\ Field(w, 21, 4) \in {4, 5, 11}
             /\ Bit32(w, 20) = 1
             /\ Field(w, 12, 4) # 15
             /\ RefCond(Field(w, 28, 4)) )
           => /\ ~panicked
              /\ FlagsOf(regs)[3] = DataProcResult(w).nzcv[3]
              /\ FlagsOf(regs)[4] = DataProcResult(w).nzcv[4]
        /\ (ArmStep /\ w = Word(\hE090, 0) /\ GetReg(last.regs, 0) = Word(\h8000, 0))
           => GetReg(regs, 0) = Zero32 /\ FlagsOf(regs) = <<0, 1, 1, 1>>

\* C7: for SUB, RSB and CMP with S=1 and Rd # R15, C = 1 exactly when the
\* subtraction produced no borrow (minuend >= subtrahend, unsigned);
\* SUBS R0,R0,R0 leaves R0=0, Z=1, N=0, C=1 for every initial R0.
SubFlags ==
    LET w == InstrWord
        rnValue == RefReg(Field(w, 16, 4))
        op2 == RefOperand2(w)[1]
        minuend == IF Field(w, 21, 4) = 3 THEN op2 ELSE rnValue
        subtrahend == IF Field(w, 21, 4) = 3 THEN rnValue ELSE op2
    IN  /\ ( /\ ArmStep
             /\ IsDataProc(w)
             /\ Field(w, 21, 4) \in {2, 3, 10}
             /\ Bit32(w, 20) = 1
             /\ Field(w, 12, 4) # 15
             /\ RefCond(Field(w, 28, 4)) )
           => /\ ~panicked
              /\ FlagsOf(regs)[3] = 1 <=> Le32(subtrahend, minuend)
        /\ (ArmStep /\ w = Word(\hE050, 0))
           => /\ GetReg(regs, 0) = Zero32
              /\ FlagsOf(regs)[1] = 0
              /\ FlagsOf(regs)[2] = 1
              /\ FlagsOf(regs)[3] = 1

\* C8: an LDM with P=0, U=1, W=1 and a non-empty register list without Rn
\* loads the listed registers, in ascending register number, from
\* consecutive words starting at the base address and leaves
\* Rn = base + 4 * (number of listed registers); LDM R13!,{R0-R3} with
\* R13 = 0x03007F00 over 0x11, 0x22, 0x33, 0x44 gives R0..R3 those words and
\* R13 = 0x03007F10.
LoadMultipleIncrementAfter ==
    LET w == InstrWord
        rn == Field(w, 16, 4)
        base == RefReg(rn)
        slot(i) == WordAt(last.bus, Add32(base, U32(4 * RankInList(w, i))))
    IN  ( /\ ArmStep
          /\ IsLoadMultiple(w)
          /\ Bit32(w, 24) = 0
          /\ Bit32(w, 23) = 1
          /\ Bit32(w, 21) = 1
          /\ w[2] # 0
          /\ ~InRegList(w, rn)
          /\ RefCond(Field(w, 28, 4)) )
        => /\ ~panicked
           /\ \A i \in 0..14 : InRegList(w, i) => GetReg(regs, i) = slot(i)
           /\ InRegList(w, 15) => regs.PC = WordAligned(slot(15))
           /\ GetReg(regs, rn) = Add32(base, U32(4 * RankInList(w, 16)))

----------------------------------------------------------------------------
(* Register file calls                                                     *)

\* C11: under a fixed mode, for every register number n in 0..14 and every
\* value v, SetReg(n, v) followed by GetReg(n) returns v, and writing back
\* the value just read from a register leaves the register file unchanged.
RegisterRoundTrip ==
    /\ (last.op = "SetReg" /\ last.arg[1] # 15) =>
           /\ GetMode(regs) = GetMode(last.regs)
           /\ GetReg(regs, last.arg[1]) = last.arg[2]
    /\ \A n \in 0..14 :
           /\ \A v \in ApiValues : GetReg(SetReg(regs, n, v), n) = v
           /\ SetReg(regs, n, GetReg(regs, n)) = regs

\* R13 written in IRQ mode: the value is in the IRQ bank and the user bank
\* holds something else.
RegisterRoundTripWitness ==
    /\ last.op = "SetReg"
    /\ last.arg[1] = 13
    /\ GetMode(regs) = IRQMode
    /\ regs.SP_irq = last.arg[2]
    /\ regs.SP_usr # last.arg[2]

\* C12: in user or system mode GetSPSR returns 0 and SetSPSR(v) leaves the
\* whole register file unchanged, for every v; neither call aborts.
SPSRUserSystem ==
    /\ GetMode(regs) \in {USRMode, SYSMode} =>
           /\ GetSPSR(regs) = Zero32
           /\ \A v \in ApiValues : SetSPSR(regs, v) = regs
    /\ (last.op = "SetSPSR" /\ GetMode(last.regs) \in {USRMode, SYSMode}) =>
           /\ regs = last.regs
           /\ ~panicked

\* SetSPSR called in system mode while the supervisor SPSR holds a value.
SPSRUserSystemWitness ==
    /\ last.op = "SetSPSR"
    /\ GetMode(last.regs) = SYSMode
    /\ last.regs.SPSR_svc # Zero32
    /\ last.arg[1] # last.regs.SPSR_svc

----------------------------------------------------------------------------
(* Bus calls                                                               *)

\* The four mirrored regions of the region table with their real sizes.
IsMirrored(a) ==
    \/ InRange(a, Word(\h0200, 0), Word(\h02FF, \hFFFF))
    \/ InRange(a, Word(\h0300, 0), Word(\h03FF, \hFFFF))
    \/ InRange(a, Word(\h0500, 0), Word(\h05FF, \hFFFF))
    \/ InRange(a, Word(\h0700, 0), Word(\h07FF, \hFFFF))

\* base + ((a - base) mod size)
FoldIn(a, base, size) == Add32(base, U32(Offset(a, base) % size))

Fold(a) ==
    CASE a[1] \div 256 = 2 -> FoldIn(a, Word(\h0200, 0), 262144)
      [] a[1] \div 256 = 3 -> FoldIn(a, Word(\h0300, 0), 32768)
      [] a[1] \div 256 = 5 -> FoldIn(a, Word(\h0500, 0), 1024)
      [] a[1] \div 256 = 7 -> FoldIn(a, Word(\h0700, 0), 1024)
      [] OTHER -> a

\* C13: for every address A in a mirrored region (on-board work RAM, on-chip
\* work RAM, palette RAM, OAM), in every bus state, read8(A) returns what
\* read8(fold(A)) returns, fold(A) = base + ((A - base) mod real size).
ReadMirrorsFold ==
    (last.op = "Read8" /\ IsMirrored(last.arg[1])) =>
        /\ ~panicked
        /\ ~Read8Panics(bus, Fold(last.arg[1]))
        /\ last.arg[2] = <<Read8(bus, Fold(last.arg[1]))>>

\* The little-endian composition of the four bytes at a.
BytesAt(b, a) ==
    Word(Read8(b, AddrPlus(a, 3)) * 256 + Read8(b, AddrPlus(a, 2)),
         Read8(b, AddrPlus(a, 1)) * 256 + Read8(b, a))

\* a is word-aligned and a..a+3 stay below the next 64 KiB boundary, hence
\* inside one region of the table.
AlignedInOneRegion(a) == a[2] % 4 = 0

\* C14: for every word-aligned address A whose four bytes lie in one region,
\* read32(A) = read8(A) | read8(A+1)<<8 | read8(A+2)<<16 | read8(A+3)<<24,
\* in every bus state.
Read32LittleEndian ==
    (last.op = "Read32" /\ AlignedInOneRegion(last.arg[1])) =>
        /\ ~panicked
        /\ \A k \in 0..3 : ~Read8Panics(bus, AddrPlus(last.arg[1], k))
        /\ last.arg[2] = <<BytesAt(bus, last.arg[1])>>

IsWrite(op) == op \in {"Write8", "Write16", "Write32"}

\* The number of bytes a write call stores.
Width(op) == CASE op = "Write8" -> 1 [] op = "Write16" -> 2 [] op = "Write32" -> 4

InBootRom(a) == Le32(a, Word(0, \h3FFF))

InCartRom(a) == InRange(a, Word(\h0800, 0), Word(\h0DFF, \hFFFF))

\* C15 as stated: any write8, write16 or write32 whose address lies in the
\* boot ROM window or in the cartridge ROM window returns normally and leaves
\* the boot ROM, the cartridge ROM and every other bus-visible byte
\* unchanged.
ReadOnlyWindowsDropWrites ==
    (IsWrite(last.op) /\ (InBootRom(last.arg[1]) \/ InCartRom(last.arg[1]))) =>
        /\ ~panicked
        /\ bus = last.bus

\* C15 amended: the same for a write whose address lies in the boot ROM
\* window, or whose bytes all lie in the cartridge ROM window.
ReadOnlyWindowsDropContainedWrites ==
    (/\ IsWrite(last.op)
     /\ \/ InBootRom(last.arg[1])
        \/ /\ InCartRom(last.arg[1])
           /\ InCartRom(AddrPlus(last.arg[1], Width(last.op) - 1))) =>
        /\ ~panicked
        /\ bus = last.bus

\* A word written at the start of a non-empty cartridge image.
ReadOnlyWindowsDropContainedWritesWitness ==
    /\ last.op = "Write32"
    /\ last.arg[1] = Word(\h0800, 0)
    /\ Len(last.bus.ROM) >= 4
    /\ ~panicked

\* The addresses the region table leaves out.
IsUnmapped(a) ==
    \/ InRange(a, Word(0, \h4000), Word(\h01FF, \hFFFF))
    \/ InRange(a, Word(\h0E01, 0), Word(\h0FFF, \hFFFF))
    \/ Le32(Word(\h1000, 0), a)

\* C16: read8 of an address in no region of the table returns 0xFF, a write
\* of any width to such an address changes no bus-visible state, and neither
\* aborts.
OpenBusDropsWrites ==
    /\ (last.op = "Read8" /\ IsUnmapped(last.arg[1])) =>
           /\ ~panicked
           /\ last.arg[2] = <<255>>
    /\ (IsWrite(last.op) /\ IsUnmapped(last.arg[1])) =>
           /\ ~panicked
           /\ bus = last.bus

\* C16 amended: read8 of an address in no region of the table returns 0xFF,
\* a write whose bytes all lie at such addresses changes no bus-visible
\* state, and neither aborts.
OpenBusAccess ==
    /\ (last.op = "Read8" /\ IsUnmapped(last.arg[1])) =>
           /\ ~panicked
           /\ last.arg[2] = <<255>>
    /\ (/\ IsWrite(last.op)
        /\ \A k \in 0..(Width(last.op) - 1) :
               IsUnmapped(AddrPlus(last.arg[1], k))) =>
           /\ ~panicked
           /\ bus = last.bus

\* A word written just above the boot ROM, after a byte was stored in the
\* on-board work RAM.
OpenBusAccessWitness ==
    /\ last.op = "Write32"
    /\ last.arg[1] = Word(0, \h4000)
    /\ last.prev.op = "Write8"
    /\ last.bus.EWRAM # <<>>
    /\ ~panicked

\* The byte offset k of a cartridge-window address in its wait-state alias.
RomOffset(a) == (a[1] % 512) * Half + a[2]

\* C17: for a cartridge image of length L and every k < L, read8 of
\* 0x08000000 + k returns byte k of the image without aborting, and so do
\* the wait-state aliases 0x0A000000 + k and 0x0C000000 + k.
CartridgeRomReads ==
    (/\ last.op = "Read8"
     /\ InCartRom(last.arg[1])
     /\ RomOffset(last.arg[1]) < Len(bus.ROM)) =>
        /\ ~panicked
        /\ last.arg[2] = <<bus.ROM[RomOffset(last.arg[1]) + 1]>>

\* The backing store of the writable region whose base range holds a, as the
\* bus field that keeps it; palette RAM, video RAM and OAM have no field of
\* their own.
WritableBase(a) ==
    CASE InRange(a, Word(\h0200, 0), Word(\h0203, \hFFFF)) -> "EWRAM"
      [] InRange(a, Word(\h0300, 0), Word(\h0300, \h7FFF)) -> "IWRAM"
      [] InRange(a, Word(\h0500, 0), Word(\h0500, \h03FF)) -> "palette"
      [] InRange(a, Word(\h0600, 0), Word(\h0601, \h7FFF)) -> "video"
      [] InRange(a, Word(\h0700, 0), Word(\h0700, \h03FF)) -> "oam"
      [] InRange(a, Word(\h0E00, 0), Word(\h0E00, \hFFFF)) -> "SRAM"
      [] OTHER -> "none"

BusFields ==
    {"BIOS", "EWRAM", "IWRAM", "IORegs", "SRAM", "ROM", "dispcnt", "VCount",
     "frameReady", "CycleCount"}

\* C18: for every address A in the base range of a writable region and
\* every byte v, write8(A, v) followed by read8(A) returns v, neither call
\* aborts, and no byte of a different region (no I/O register) changes.
WriteThenRead ==
    (last.op = "Write8" /\ WritableBase(last.arg[1]) # "none") =>
        /\ ~panicked
        /\ ~Read8Panics(bus, last.arg[1])
        /\ Read8(bus, last.arg[1]) = last.arg[2]
        /\ \A f \in BusFields \ {WritableBase(last.arg[1])} :
               bus[f] = last.bus[f]

InMirrorArea(a) ==
    \/ InRange(a, Word(\h0204, 0), Word(\h02FF, \hFFFF))
    \/ InRange(a, Word(\h0300, \h8000), Word(\h03FF, \hFFFF))

\* C19: writes are folded like reads: for every address A in the mirror
\* area of on-board or on-chip work RAM, write8(A, v) makes read8(A) and
\* read8(fold(A)) both return v.
MirrorWritesFold ==
    (last.op = "Write8" /\ InMirrorArea(last.arg[1])) =>
        /\ ~panicked
        /\ ~Read8Panics(bus, last.arg[1])
        /\ Read8(bus, last.arg[1]) = last.arg[2]
        /\ Read8(bus, Fold(last.arg[1])) = last.arg[2]

\* C20: the core never surfaces an error to its caller: Step on any ARM
\* instruction word, from any state reachable from Reset, returns normally
\* instead of aborting the process.
StepNeverAborts == last.op = "Step" => ~panicked

----------------------------------------------------------------------------
(* Exceptions, conditions and the program counter as an operand            *)

\* The word Step fetched, <<>> when the fetch aborted.
FetchedWord ==
    IF Read32Panics(last.bus, InstrAddr) THEN <<>>
    ELSE Read32(last.bus, InstrAddr)

\* C21: an undefined opcode whose condition passes enters the undefined
\* exception: mode 0x1B, SPSR_und = the old CPSR, R14_und = the return
\* address (the instruction address + 4), I = 1, T = 0 and PC = 4; the
\* word is not silently skipped.
UndefinedEntersException ==
    LET w == FetchedWord
    IN  ( /\ ArmStep
          /\ w # <<>>
          /\ DecodeInstruction_Arm(w).Type = ARMITUndefined
          /\ RefCond(Field(w, 28, 4)) )
        => /\ ~panicked
           /\ GetMode(regs) = UNDMode
           /\ regs.SPSR_und = last.regs.CPSR
           /\ regs.LR_und = Add32(InstrAddr, U32(4))
           /\ Bit32(regs.CPSR, 7) = 1
           /\ Bit32(regs.CPSR, 5) = 0
           /\ regs.PC = U32(4)

\* C22: when the condition field of the fetched word fails against the
\* flags (0b1111 always fails), Step changes nothing in the register file
\* or in memory except PC, which advances by 4, whatever the other 28 bits
\* of the word are.
ConditionFailSkips ==
    LET w == FetchedWord
    IN  ( /\ ArmStep
          /\ w # <<>>
          /\ ~RefCond(Field(w, 28, 4)) )
        => /\ ~panicked
           /\ bus = last.bus
           /\ regs = [last.regs EXCEPT !.PC = Add32(@, U32(4))]

\* A BX R0 under the reserved condition 0b1111 has been stepped over.
ConditionFailSkipsWitness ==
    /\ ArmStep
    /\ FetchedWord = Word(\hF12F, \hFF10)
    /\ ~panicked
    /\ regs.PC = Add32(InstrAddr, U32(4))

\* BX Rm: bits 27:4 are 0001 0010 1111 1111 1111 0001.
IsBranchExchange(w) ==
    w # <<>> /\ w[1] % 4096 = \h12F /\ w[2] \div 16 = \hFF1

HalfAligned(a) == <<a[1], a[2] - (a[2] % 2)>>

\* C23: BX Rm with a passing condition takes the instruction set from bit 0
\* of Rm: when it is set, T becomes 1 and PC = Rm with bit 0 cleared;
\* otherwise T becomes 0 and PC = Rm with bits 1:0 cleared (R0 = 0x08000201
\* gives T = 1 and PC = 0x08000200).
BranchExchangeSelectsState ==
    LET w == FetchedWord
        rm == RefReg(Field(w, 0, 4))
    IN  ( /\ ArmStep
          /\ IsBranchExchange(w)
          /\ RefCond(Field(w, 28, 4)) )
        => /\ ~panicked
           /\ IF Bit32(rm, 0) = 1
              THEN Bit32(regs.CPSR, 5) = 1 /\ regs.PC = HalfAligned(rm)
              ELSE Bit32(regs.CPSR, 5) = 0 /\ regs.PC = WordAligned(rm)

\* LDR or LDRB of R15 with an immediate offset.
IsLoadToPC(w) ==
    /\ w # <<>>
    /\ Field(w, 26, 2) = 1
    /\ Bit32(w, 25) = 0
    /\ Bit32(w, 20) = 1
    /\ Field(w, 12, 4) = 15

\* The address a single transfer with an immediate offset accesses.
TransferAddress(w) ==
    LET base == RefReg(Field(w, 16, 4))
        offset == <<0, Field(w, 0, 12)>>
    IN  IF Bit32(w, 24) = 0 THEN base
        ELSE IF Bit32(w, 23) = 1 THEN Add32(base, offset)
        ELSE Sub32(base, offset)

\* C24: a word load into R15 with a passing condition takes the
\* instruction set from bit 0 of the loaded word v: set gives T = 1 and
\* PC = v with bit 0 cleared, clear gives T = 0 and PC = v with bits 1:0
\* cleared; a byte load into R15 never sets T.
LoadToPCSelectsState ==
    LET w == FetchedWord
        v == WordAt(last.bus, TransferAddress(w))
    IN  ( /\ ArmStep
          /\ IsLoadToPC(w)
          /\ RefCond(Field(w, 28, 4))
          /\ v # <<>> )
        => /\ ~panicked
           /\ IF Bit32(w, 22) = 1 THEN Bit32(regs.CPSR, 5) = 0
              ELSE IF Bit32(v, 0) = 1
              THEN Bit32(regs.CPSR, 5) = 1 /\ regs.PC = HalfAligned(v)
              ELSE Bit32(regs.CPSR, 5) = 0 /\ regs.PC = WordAligned(v)

\* A data-processing word with S = 0 and Rd # R15 that reads R15 as Rn or
\* as an unshifted-by-register Rm.
ReadsPCAsOperand(w) ==
    /\ IsDataProc(w)
    /\ Field(w, 21, 4) \notin 8..11
    /\ Bit32(w, 20) = 0
    /\ Field(w, 12, 4) # 15
    /\ \/ Field(w, 16, 4) = 15 /\ Field(w, 21, 4) \notin {13, 15}
       \/ Bit32(w, 25) = 0 /\ Bit32(w, 4) = 0 /\ Field(w, 0, 4) = 15

\* A word LDR or STR of Rd # R15 with base R15, pre-indexed by an
\* immediate, no write-back.
UsesPCAsBase(w) ==
    /\ w # <<>>
    /\ Field(w, 24, 4) = 5
    /\ Bit32(w, 22) = 0
    /\ Bit32(w, 21) = 0
    /\ Field(w, 16, 4) = 15
    /\ Field(w, 12, 4) # 15

\* C25: an instruction at address A that reads R15 as a source operand
\* sees A + 8: as a data-processing operand (MOV R0,R15 leaves R0 = A + 8)
\* and as the base of a load or store.
PCReadsAsAddressPlus8 ==
    LET w == FetchedWord
        rd == Field(w, 12, 4)
        addr == TransferAddress(w)
    IN  /\ (ArmStep /\ ReadsPCAsOperand(w) /\ RefCond(Field(w, 28, 4)))
           => ~panicked /\ GetReg(regs, rd) = DataProcResult(w).result
        /\ ( /\ ArmStep
             /\ UsesPCAsBase(w)
             /\ RefCond(Field(w, 28, 4))
             /\ WordAt(last.bus, addr) # <<>> )
           => /\ ~panicked
              /\ IF Bit32(w, 20) = 1
                 THEN GetReg(regs, rd) = WordAt(last.bus, addr)
                 ELSE WordAt(bus, addr) = GetReg(last.regs, rd)

\* SWI: bits 27:24 are 1111.
IsSoftwareInterrupt(w) == w # <<>> /\ Field(w, 24, 4) = 15

\* C26: SWI at address A with a passing condition, from any mode with
\* CPSR = C0, switches to supervisor mode with SPSR_svc = C0 (the old mode
\* bits included), R14_svc = A + 4, I = 1, T = 0 and PC = 8, and leaves R13
\* and R14 of the interrupted mode unchanged.
SoftwareInterruptEntry ==
    LET w == FetchedWord
        from == GetMode(last.regs)
    IN  ( /\ ArmStep
          /\ IsSoftwareInterrupt(w)
          /\ RefCond(Field(w, 28, 4)) )
        => /\ ~panicked
           /\ GetMode(regs) = SVCMode
           /\ regs.SPSR_svc = last.regs.CPSR
           /\ regs.LR_svc = Add32(InstrAddr, U32(4))
           /\ Bit32(regs.CPSR, 7) = 1
           /\ Bit32(regs.CPSR, 5) = 0
           /\ regs.PC = U32(8)
           /\ from # SVCMode =>
                 /\ regs[SPField(from)] = last.regs[SPField(from)]
                 /\ regs[LRField(from)] = last.regs[LRField(from)]

\* The interrupt line was asserted during the last Step.
LineAsserted == last.op = "Step" /\ last.arg = <<TRUE>>

\* A data-processing word with S = 0, Rd # R15, an immediate operand and
\* Rn # R15.
IsPlainDataProc(w) ==
    /\ IsDataProc(w)
    /\ Field(w, 21, 4) \notin 8..11
    /\ Bit32(w, 25) = 1
    /\ Bit32(w, 20) = 0
    /\ Field(w, 12, 4) # 15
    /\ Field(w, 16, 4) # 15

\* C27: a Step taken while the interrupt line is asserted and the I bit is
\* clear enters the IRQ exception instead of executing the next
\* instruction: mode IRQ, SPSR_irq = the previous CPSR, I = 1, T = 0 and
\* PC = 0x18; with the I bit set the line is ignored and the instruction
\* executes normally (a data-processing instruction leaves the CPSR and the
\* IRQ bank alone and PC at the instruction address + 4).
InterruptEntry ==
    LET w == FetchedWord
    IN  /\ (LineAsserted /\ Bit32(last.regs.CPSR, 7) = 0)
           => /\ ~panicked
              /\ GetMode(regs) = IRQMode
              /\ regs.SPSR_irq = last.regs.CPSR
              /\ Bit32(regs.CPSR, 7) = 1
              /\ Bit32(regs.CPSR, 5) = 0
              /\ regs.PC = U32(\h18)
        /\ ( /\ LineAsserted
             /\ Bit32(last.regs.CPSR, 7) = 1
             /\ ArmStep
             /\ IsPlainDataProc(w)
             /\ RefCond(Field(w, 28, 4)) )
           => /\ ~panicked
              /\ regs.CPSR = last.regs.CPSR
              /\ regs.SPSR_irq = last.regs.SPSR_irq
              /\ regs.LR_irq = last.regs.LR_irq
              /\ regs.PC = Add32(InstrAddr, U32(4))

IsStoreMultiple(w) == w # <<>> /\ Field(w, 25, 3) = 4 /\ Bit32(w, 20) = 0

\* C28: an STM with R15 in its register list and a passing condition,
\* executed at instruction address A, stores A + 12 in the word of R15
\* (the highest address of the block).
StoreMultipleStoresPCPlus12 ==
    LET w == FetchedWord
        n == RankInList(w, 16)
        slot == Add32(BlockStart(w, RefReg(Field(w, 16, 4)), n),
                      U32(4 * (n - 1)))
    IN  ( /\ ArmStep
          /\ IsStoreMultiple(w)
          /\ InRegList(w, 15)
          /\ RefCond(Field(w, 28, 4)) )
        => /\ ~panicked
           /\ WordAt(bus, slot) = Add32(InstrAddr, U32(12))

\* C29: an LDM with an empty register list, U = 1 and W = 1, with a
\* passing condition, leaves the base register increased by 0x40.
EmptyListAdvancesBase ==
    LET w == FetchedWord
        rn == Field(w, 16, 4)
    IN  ( /\ ArmStep
          /\ IsLoadMultiple(w)
          /\ w[2] = 0
          /\ Bit32(w, 23) = 1
          /\ Bit32(w, 21) = 1
          /\ rn # 15
          /\ RefCond(Field(w, 28, 4)) )
        => /\ ~panicked
           /\ GetReg(regs, rn) = Add32(GetReg(last.regs, rn), U32(\h40))

\* C30: in the immediate-shift form of operand 2, LSR #0 and ASR #0 shift
\* by 32: MOV Rd,Rm,LSR #0 leaves Rd = 0 and MOV Rd,Rm,ASR #0 leaves Rd =
\* 32 copies of bit 31 of Rm, and with S = 1 the C flag is bit 31 of Rm,
\* for every value of Rm.
ShiftByZeroMeans32 ==
    LET w == FetchedWord
        rm == RefReg(Field(w, 0, 4))
    IN  ( /\ ArmStep
          /\ IsDataProc(w)
          /\ Field(w, 21, 4) = 13
          /\ Bit32(w, 25) = 0
          /\ Bit32(w, 4) = 0
          /\ Field(w, 7, 5) = 0
          /\ Field(w, 5, 2) \in {1, 2}
          /\ Field(w, 12, 4) # 15
          /\ Field(w, 0, 4) # 15
          /\ RefCond(Field(w, 28, 4)) )
        => /\ ~panicked
           /\ GetReg(regs, Field(w, 12, 4)) =
                 IF Field(w, 5, 2) = 2 /\ Bit32(rm, 31) = 1
                 THEN Word(\hFFFF, \hFFFF) ELSE Zero32
           /\ Bit32(w, 20) = 1 => Bit32(regs.CPSR, 29) = Bit32(rm, 31)

----------------------------------------------------------------------------
(* The barrel shifter, the status registers and the arithmetic handlers    *)

\* MOV or MVN of Rm, ROR #0, with Rd # R15 and Rm # R15.
IsMoveRRX(w) ==
    /\ IsDataProc(w)
    /\ Field(w, 21, 4) \in {13, 15}
    /\ Bit32(w, 25) = 0
    /\ Field(w, 4, 8) = 6
    /\ Field(w, 12, 4) # 15
    /\ Field(w, 0, 4) # 15

\* Rm rotated right by one through the carry c.
RRX(rm, c) == Or32(Shr32(rm, 1), Shl32(<<0, c>>, 31))

\* C31: in the immediate-shift form of operand 2, ROR #0 is RRX: MOV
\* Rd,Rm,ROR #0 leaves Rd = (old C << 31) | (Rm >> 1) and MVN its
\* complement, and with S = 1 the C flag is bit 0 of Rm, for every Rm and
\* either value of C.
RotateByZeroIsRRX ==
    LET w == FetchedWord
        rm == RefReg(Field(w, 0, 4))
        operand == RRX(rm, Bit32(last.regs.CPSR, 29))
    IN  (ArmStep /\ IsMoveRRX(w) /\ RefCond(Field(w, 28, 4)))
        => /\ ~panicked
           /\ GetReg(regs, Field(w, 12, 4)) =
                 IF Field(w, 21, 4) = 13 THEN operand ELSE Not32(operand)
           /\ Bit32(w, 20) = 1 => Bit32(regs.CPSR, 29) = Bit32(rm, 0)

\* MOVS R1,R0,ROR #0 with R0 = 0xFFFFFFFF and C = 0 has left R1 =
\* 0x7FFFFFFF and C = 1.
RotateByZeroIsRRXWitness ==
    /\ ArmStep
    /\ FetchedWord = Word(\hE1B0, \h1060)
    /\ last.regs.R[0] = Word(\hFFFF, \hFFFF)
    /\ Bit32(last.regs.CPSR, 29) = 0
    /\ regs.R[1] = Word(\h7FFF, \hFFFF)
    /\ Bit32(regs.CPSR, 29) = 1

\* C33: TST, TEQ, CMP and CMN with a passing condition write no
\* general-purpose register and set the flags from their discarded result:
\* N is bit 31 of that result and Z is 1 exactly when it is zero (after CMP
\* Rn,op2, Z = 1 exactly when Rn = op2 and N = bit 31 of Rn - op2).
CompareSetsFlags ==
    LET w == FetchedWord
    IN  ( /\ ArmStep
          /\ IsDataProc(w)
          /\ Field(w, 21, 4) \in 8..11
          /\ Bit32(w, 20) = 1
          /\ RefCond(Field(w, 28, 4)) )
        => /\ ~panicked
           /\ \A n \in 0..14 : GetReg(regs, n) = GetReg(last.regs, n)
           /\ FlagsOf(regs)[1] = DataProcResult(w).nzcv[1]
           /\ FlagsOf(regs)[2] = DataProcResult(w).nzcv[2]
           /\ Field(w, 21, 4) = 10 =>
                 (FlagsOf(regs)[2] = 1 <=>
                    RefReg(Field(w, 16, 4)) = RefOperand2(w)[1])

\* C34: ADC, SBC and RSC with Rd # R15 use the carry flag as it was before
\* the instruction: ADC writes Rn + op2 + C, SBC writes Rn - op2 - (1 - C)
\* and RSC writes op2 - Rn - (1 - C), modulo 2^32.
CarryArithmeticUsesC ==
    LET w == FetchedWord
    IN  ( /\ ArmStep
          /\ IsDataProc(w)
          /\ Field(w, 21, 4) \in 5..7
          /\ Field(w, 12, 4) # 15
          /\ RefCond(Field(w, 28, 4)) )
        => /\ ~panicked
           /\ GetReg(regs, Field(w, 12, 4)) = DataProcResult(w).result

\* The shifter of the data-processing word w produces no carry of its own:
\* an immediate with rotate 0, a register with LSL #0, or a register shifted
\* by a register whose low byte is 0.
NoShifterCarry(w) ==
    IF Bit32(w, 25) = 1 THEN Field(w, 8, 4) = 0
    ELSE IF Bit32(w, 4) = 0 THEN Field(w, 5, 7) = 0
    ELSE Field(RefReg(Field(w, 8, 4)), 0, 8) = 0

\* C37: AND, EOR, ORR, MOV, BIC and MVN with S = 1 and Rd # R15 leave the C
\* flag as it was when the barrel shifter produces no carry of its own.
LogicalKeepsCarry ==
    LET w == FetchedWord
    IN  ( /\ ArmStep
          /\ IsDataProc(w)
          /\ Field(w, 21, 4) \in {0, 1, 12, 13, 14, 15}
          /\ Bit32(w, 20) = 1
          /\ Field(w, 12, 4) # 15
          /\ NoShifterCarry(w)
          /\ RefCond(Field(w, 28, 4)) )
        => /\ ~panicked
           /\ Bit32(regs.CPSR, 29) = Bit32(last.regs.CPSR, 29)

\* MSR of a register or of an immediate, without the control field.
IsMoveToStatus(w) ==
    /\ w # <<>>
    /\ Field(w, 26, 2) = 0
    /\ Field(w, 23, 2) = 2
    /\ Field(w, 20, 2) = 2
    /\ Field(w, 12, 4) = 15
    /\ Bit32(w, 16) = 0
    /\ Bit32(w, 25) = 1 \/ (Field(w, 4, 8) = 0 /\ Field(w, 0, 4) # 15)

\* The PSR bits the field mask of w selects: f = 31:24, s = 23:16,
\* x = 15:8.
FieldMask(w) ==
    <<Bit32(w, 19) * \hFF00 + Bit32(w, 18) * \h00FF, Bit32(w, 17) * \hFF00>>

\* The PSR value MSR w leaves in a status register that held old.
UpdatedPSR(w, old) ==
    LET operand == IF Bit32(w, 25) = 1 THEN RefOperand2(w)[1]
                   ELSE RefReg(Field(w, 0, 4))
    IN  Or32(AndNot32(old, FieldMask(w)), And32(operand, FieldMask(w)))

\* C32: MSR with a passing condition applies the field-mask update and
\* writes the value back: after MSR CPSR_f,Rm bits 31:24 of the CPSR are
\* bits 31:24 of Rm, after MSR SPSR_f,Rm in a mode with an SPSR bits 31:24
\* of that SPSR are bits 31:24 of Rm, and the bits outside the selected
\* fields keep their values.
MoveToStatusWritesBack ==
    LET w == FetchedWord
        mode == GetMode(last.regs)
    IN  ( /\ ArmStep
          /\ IsMoveToStatus(w)
          /\ Bit32(w, 22) = 1 => mode \notin {USRMode, SYSMode}
          /\ RefCond(Field(w, 28, 4)) )
        => /\ ~panicked
           /\ IF Bit32(w, 22) = 0
              THEN regs.CPSR = UpdatedPSR(w, last.regs.CPSR)
              ELSE /\ GetSPSR(regs) = UpdatedPSR(w, GetSPSR(last.regs))
                   /\ regs.CPSR = last.regs.CPSR

\* MUL or MLA: bits 27:22 are 000000 and bits 7:4 are 1001.
IsMultiply(w) ==
    w # <<>> /\ Field(w, 22, 6) = 0 /\ Field(w, 4, 4) = 9

\* x * y modulo 2^16 for 16-bit x and y.
MulLow16(x, y) ==
    (x * (y % 256) + ((x * (y \div 256)) % 256) * 256) % Half

\* a * b modulo 2^32.
Mul32(a, b) ==
    LET low == Add32(U32(a[2] * (b[2] % 256)),
                     Shl32(U32(a[2] * (b[2] \div 256)), 8))
        cross == (MulLow16(a[1], b[2]) + MulLow16(a[2], b[1])) % Half
    IN  Add32(low, <<cross, 0>>)

\* C39: a multiply word with a passing condition multiplies: MUL leaves
\* Rd = Rm * Rs and MLA leaves Rd = Rm * Rs + Rn, modulo 2^32, where Rd is
\* bits 19:16, Rn bits 15:12, Rs bits 11:8 and Rm bits 3:0; no status
\* register is copied into Rd.
MultiplyMultiplies ==
    LET w == FetchedWord
        product == Mul32(RefReg(Field(w, 0, 4)), RefReg(Field(w, 8, 4)))
    IN  ( /\ ArmStep
          /\ IsMultiply(w)
          /\ RefCond(Field(w, 28, 4)) )
        => /\ ~panicked
           /\ GetReg(regs, Field(w, 16, 4)) =
                 IF Bit32(w, 21) = 1
                 THEN Add32(product, RefReg(Field(w, 12, 4)))
                 ELSE product

\* C38: the decoder classifies every word whose bits 27:24 are 1111 as a
\* software interrupt with comment = bits 23:0, whatever the condition
\* field in bits 31:28 is (0xEF000000 | n decodes as SWI n).
SoftwareInterruptDecodes ==
    LET w == FetchedWord
        decoded == DecodeInstruction_Arm(w)
    IN  (ArmStep /\ IsSoftwareInterrupt(w) /\ RefCond(Field(w, 28, 4)))
        => /\ ~decoded.err
           /\ decoded.Type = ARMITSWI
           /\ decoded.SWIComment = <<w[1] % 256, w[2]>>

----------------------------------------------------------------------------
(* Transfer addresses                                                      *)

\* An LDM or STM without the S bit whose non-empty list holds neither R15
\* nor the base register, with a base other than R15.
IsPlainBlockTransfer(w) ==
    /\ w # <<>>
    /\ Field(w, 25, 3) = 4
    /\ Bit32(w, 22) = 0
    /\ w[2] # 0
    /\ ~InRegList(w, 15)
    /\ Field(w, 16, 4) # 15
    /\ ~InRegList(w, Field(w, 16, 4))

\* C35: every LDM/STM with a passing condition, in all four P/U
\* combinations, transfers its listed registers in ascending register
\* number at ascending addresses 4 bytes apart: the k-th listed register
\* uses the lowest address of the block + 4k, also when U = 0.
BlockTransferAscending ==
    LET w == FetchedWord
        start == BlockStart(w, RefReg(Field(w, 16, 4)), RankInList(w, 16))
        slot(i) == Add32(start, U32(4 * RankInList(w, i)))
    IN  ( /\ ArmStep
          /\ IsPlainBlockTransfer(w)
          /\ RefCond(Field(w, 28, 4)) )
        => /\ ~panicked
           /\ \A i \in 0..14 : InRegList(w, i) =>
                 IF Bit32(w, 20) = 1
                 THEN GetReg(regs, i) = WordAt(last.bus, slot(i))
                 ELSE WordAt(bus, slot(i)) = GetReg(last.regs, i)

\* A word LDR or STR with a 12-bit immediate offset, Rn # R15, Rd # R15
\* and Rd # Rn.
IsSingleTransfer(w) ==
    /\ w # <<>>
    /\ Field(w, 25, 3) = 2
    /\ Bit32(w, 22) = 0
    /\ Field(w, 16, 4) # 15
    /\ Field(w, 12, 4) # 15
    /\ Field(w, 12, 4) # Field(w, 16, 4)

\* C36: LDR/STR with a 12-bit immediate offset, Rn # R15 and a passing
\* condition transfers at Rn + offset when P = 1 and U = 1, at Rn - offset
\* when P = 1 and U = 0 and at Rn when P = 0; when W is set, Rn afterwards
\* holds Rn + offset (U = 1) or Rn - offset (U = 0), pre-indexed and
\* post-indexed alike.
SingleTransferAddressing ==
    LET w == FetchedWord
        rn == Field(w, 16, 4)
        rd == Field(w, 12, 4)
        offset == <<0, Field(w, 0, 12)>>
        addr == TransferAddress(w)
    IN  ( /\ ArmStep
          /\ IsSingleTransfer(w)
          /\ RefCond(Field(w, 28, 4))
          /\ WordAt(last.bus, addr) # <<>> )
        => /\ ~panicked
           /\ IF Bit32(w, 20) = 1
              THEN GetReg(regs, rd) = WordAt(last.bus, addr)
              ELSE WordAt(bus, addr) = GetReg(last.regs, rd)
           /\ Bit32(w, 21) = 1 =>
                 GetReg(regs, rn) =
                    IF Bit32(w, 23) = 1 THEN Add32(RefReg(rn), offset)
                    ELSE Sub32(RefReg(rn), offset)

----------------------------------------------------------------------------
(* The I/O register file                                                   *)

InIOFile(a) == InRange(a, Word(\h0400, 0), Word(\h0400, \h03FF))

\* C40: the I/O register file is one flat 1 KiB backing store: for every
\* offset k in 0x000..0x3FF (the display-register offsets 0x000..0x05F and
\* the last offset 0x3FF included) and every byte v, write8(0x04000000 + k,
\* v) followed by read8(0x04000000 + k) returns v.
IOFileWriteThenRead ==
    (last.op = "Write8" /\ InIOFile(last.arg[1])) =>
        /\ ~panicked
        /\ ~Read8Panics(bus, last.arg[1])
        /\ Read8(bus, last.arg[1]) = last.arg[2]

====
